---- MODULE Spec2Model ----
(***************************************************************************)
(* Event-Planner: the event, attendance and invitation services over the   *)
(* relational store.  Every HTTP request runs in its own goroutine; each   *)
(* SQL statement is one atomic step, and the statements of one request are *)
(* not wrapped in a transaction, so requests interleave between them.      *)
(***************************************************************************)
EXTENDS Integers, Sequences, FiniteSets, Bags, TLC

VARIABLES
    users,             \* table users: id -> [email, password_hash]
    events,            \* table events: id -> row
    attendees,         \* table event_attendees: bag of [user_id, event_id, role, status]
    invitations,       \* table invitations: id -> row
    nextEventId,       \* sequence behind events.id (SERIAL)
    nextInvitationId,  \* sequence behind invitations.id
    now,               \* wall clock, <<day, second of the day>>
    rq                 \* per connection: the request in flight and its locals

vars == <<users, events, attendees, invitations, nextEventId, nextInvitationId, now, rq>>

db == <<users, events, attendees, invitations>>

-----------------------------------------------------------------------------
(* Bounds *)

MaxEvents == 1        \* events ever inserted
MaxInvitations == 1   \* invitations ever inserted

Conns == {"c1", "c2"}     \* concurrent requests
OneConn == {"c1"}         \* one request at a time

-----------------------------------------------------------------------------
(* Values *)

NullId == 0               \* a NULL invitee_id (*int nil); ids are positive
NoTime == <<0 - 1, 0>>    \* a NULL responded_at (*time.Time nil)

MaxTitleLen == 255
MaxDescriptionLen == 1000
MaxMessageLen == 500

AttendeeRoles == {"organizer", "attendee", "collaborator"}
AttendeeStatuses == {"going", "maybe", "not_going"}

\* The request strings are drawn from a small vocabulary; a few stand for
\* strings too long to write out, and StrLen gives their length.
LongTitle == "<title of 256 bytes>"
LongDescription == "<description of 1001 bytes>"
LongMessage == "<message of 501 bytes>"

StrLen(s) ==
    IF s = LongTitle THEN 256
    ELSE IF s = LongDescription THEN 1001
    ELSE IF s = LongMessage THEN 501
    ELSE Len(s)

\* Day d of the calendar is written DateStrings[d + 1], second s of a day
\* TimeStrings[s + 1]; no other string parses.
DateStrings == <<"2030-01-01", "2030-01-02">>
TimeStrings == <<"00:00:00", "00:00:01">>

IndexOf(seq, s) == CHOOSE i \in DOMAIN seq : seq[i] = s

\* time.Parse("2006-01-02", s)
ParseDate(s) ==
    IF \E i \in DOMAIN DateStrings : DateStrings[i] = s
    THEN [ok |-> TRUE, v |-> IndexOf(DateStrings, s) - 1]
    ELSE [ok |-> FALSE, v |-> 0]

\* time.Parse("15:04:05", s)
ParseTime(s) ==
    IF \E i \in DOMAIN TimeStrings : TimeStrings[i] = s
    THEN [ok |-> TRUE, v |-> IndexOf(TimeStrings, s) - 1]
    ELSE [ok |-> FALSE, v |-> 0]

\* time.Parse("2006-01-02 15:04:05", date + " " + timeStr)
ParseDateTime(date, timeStr) ==
    IF ParseDate(date).ok /\ ParseTime(timeStr).ok
    THEN [ok |-> TRUE, v |-> <<ParseDate(date).v, ParseTime(timeStr).v>>]
    ELSE [ok |-> FALSE, v |-> <<0, 0>>]

\* Time.Before
Before(t, u) == t[1] < u[1] \/ (t[1] = u[1] /\ t[2] < u[2])

\* The clock is sampled at the instants a request can name and once after
\* them all: any other reading compares with them like one of these.
Instants ==
    {<<d - 1, t - 1>> : d \in DOMAIN DateStrings, t \in DOMAIN TimeStrings}
        \cup {<<Len(DateStrings), 0>>}

-----------------------------------------------------------------------------
(* Rows and requests *)

Event(title, description, date, time, location, organizerID, createdAt) ==
    [title |-> title, description |-> description, date |-> date, time |-> time,
     location |-> location, organizer_id |-> organizerID, created_at |-> createdAt]

NoEvent == Event("", "", 0, 0, "", 0, <<0, 0>>)

EventRequest(title, description, date, time, location) ==
    [title |-> title, description |-> description, date |-> date, time |-> time,
     location |-> location]

NoRequest == EventRequest("", "", "", "", "")

EventAttendee(userID, eventID, role, status) ==
    [user_id |-> userID, event_id |-> eventID, role |-> role, status |-> status]

\* A connection: pc is where its handler stands, op the operation, the rest
\* the arguments and locals of Service.<op>.  Once pc = "done" the record is
\* the response: the operation and the error it returned ("" for nil).
\* A bearer token: the claims user_id and exp, the signing algorithm of the
\* header, and the key the signature was made with.
Token(userID, exp, alg, key) == [user_id |-> userID, exp |-> exp, alg |-> alg, key |-> key]
NoToken == Token(0, NoTime, "", "")

Idle ==
    [pc |-> "idle", op |-> "none", uid |-> 0, id |-> 0, tgt |-> 0, val |-> "",
     email |-> "", msg |-> "", req |-> NoRequest, cur |-> NoEvent, err |-> "",
     token |-> NoToken]

Call(op, uid, id, tgt, val, email, req) ==
    [pc |-> "idle", op |-> op, uid |-> uid, id |-> id, tgt |-> tgt, val |-> val,
     email |-> email, msg |-> "", req |-> req, cur |-> NoEvent, err |-> "",
     token |-> NoToken]

Return(call, err) == [Idle EXCEPT !.pc = "done", !.op = call.op, !.err = err]
Goto(call, pc) == [call EXCEPT !.pc = pc]

AttendeesOf(eventID) == {a \in BagToSet(attendees) : a.event_id = eventID}
RowsOf(userID, eventID) ==
    {a \in BagToSet(attendees) : a.user_id = userID /\ a.event_id = eventID}

-----------------------------------------------------------------------------
(* The store: statements and the constraints of schema.sql *)

NoRows == "no rows in result set"
UniqueViolation == "duplicate key value violates unique constraint"
ForeignKeyViolation == "violates foreign key constraint"
CheckViolation == "violates check constraint"

Wrap(msg, cause) == msg \o ": " \o cause

\* The first error of a list of checks made in order ("" when all pass).
FirstErr(errs) ==
    LET failed == {i \in DOMAIN errs : errs[i] # ""}
    IN  IF failed = {} THEN ""
        ELSE errs[CHOOSE i \in failed : \A j \in failed : i <= j]

\* The INSERT of a table without UNIQUE(user_id, event_id).
InsertAttendeeUnchecked(row) ==
    IF row.role \notin AttendeeRoles \/ row.status \notin AttendeeStatuses
    THEN [err |-> CheckViolation, rows |-> attendees]
    ELSE IF row.user_id \notin DOMAIN users \/ row.event_id \notin DOMAIN events
    THEN [err |-> ForeignKeyViolation, rows |-> attendees]
    ELSE [err |-> "", rows |-> attendees (+) SetToBag({row})]

\* The INSERT with ON CONFLICT (user_id, event_id) DO NOTHING.
InsertAttendeeIgnoreConflict(row) ==
    IF row.role \notin AttendeeRoles \/ row.status \notin AttendeeStatuses
    THEN [err |-> CheckViolation, rows |-> attendees]
    ELSE IF \E a \in BagToSet(attendees) :
                a.user_id = row.user_id /\ a.event_id = row.event_id
    THEN [err |-> "", rows |-> attendees]
    ELSE IF row.user_id \notin DOMAIN users \/ row.event_id \notin DOMAIN events
    THEN [err |-> ForeignKeyViolation, rows |-> attendees]
    ELSE [err |-> "", rows |-> attendees (+) SetToBag({row})]

\* An InsertAttendee with ON CONFLICT (user_id, event_id) DO UPDATE SET role.
InsertAttendeeUpsert(row) ==
    IF row.role \notin AttendeeRoles \/ row.status \notin AttendeeStatuses
    THEN [err |-> CheckViolation, rows |-> attendees]
    ELSE IF \E a \in BagToSet(attendees) :
                a.user_id = row.user_id /\ a.event_id = row.event_id
    THEN [err |-> "",
          rows |-> SetToBag({IF a.user_id = row.user_id /\ a.event_id = row.event_id
                             THEN [a EXCEPT !.role = row.role] ELSE a :
                             a \in BagToSet(attendees)})]
    ELSE IF row.user_id \notin DOMAIN users \/ row.event_id \notin DOMAIN events
    THEN [err |-> ForeignKeyViolation, rows |-> attendees]
    ELSE [err |-> "", rows |-> attendees (+) SetToBag({row})]

\* INSERT INTO event_attendees: the CHECKs on role and status, UNIQUE(user_id,
\* event_id), then the foreign keys to users and events.
InsertAttendee(row) ==
    IF row.role \notin AttendeeRoles \/ row.status \notin AttendeeStatuses
    THEN [err |-> CheckViolation, rows |-> attendees]
    ELSE IF \E a \in BagToSet(attendees) :
                a.user_id = row.user_id /\ a.event_id = row.event_id
    THEN [err |-> UniqueViolation, rows |-> attendees]
    ELSE IF row.user_id \notin DOMAIN users \/ row.event_id \notin DOMAIN events
    THEN [err |-> ForeignKeyViolation, rows |-> attendees]
    ELSE [err |-> "", rows |-> attendees (+) SetToBag({row})]

\* A foreign key to events without ON DELETE CASCADE.
KeepAttendees(eventID) == attendees

\* event_attendees.event_id REFERENCES events(id) ON DELETE CASCADE
CascadeAttendees(eventID) ==
    LET keep == {a \in BagToSet(attendees) : a.event_id # eventID}
    IN  [a \in keep |-> attendees[a]]

\* invitations.event_id REFERENCES events(id) ON DELETE CASCADE
CascadeInvitations(eventID) ==
    LET keep == {i \in DOMAIN invitations : invitations[i].event_id # eventID}
    IN  [i \in keep |-> invitations[i]]

\* Repository.GetEventByID
GetEventByID(eventID) ==
    IF eventID \in DOMAIN events
    THEN [err |-> "", event |-> events[eventID]]
    ELSE [err |-> Wrap("failed to get event", NoRows), event |-> NoEvent]

\* SetStatus without the user in its WHERE clause.
SetStatusOfEvent(userID, eventID, status) ==
    LET hit == AttendeesOf(eventID)
        set(a) == [a EXCEPT !.status = status]
        keep == BagToSet(attendees) \ hit
        kept == [a \in keep |-> attendees[a]]
        new == [b \in {set(a) : a \in hit} |->
                   BagCardinality([a \in {h \in hit : set(h) = b} |-> attendees[a]])]
    IN  kept (+) new

\* UPDATE event_attendees SET status = $1 WHERE user_id = $2 AND event_id = $3
SetStatus(userID, eventID, status) ==
    LET hit == RowsOf(userID, eventID)
        set(a) == [a EXCEPT !.status = status]
        keep == BagToSet(attendees) \ hit
        kept == [a \in keep |-> attendees[a]]
        new == [b \in {set(a) : a \in hit} |->
                   BagCardinality([a \in {h \in hit : set(h) = b} |-> attendees[a]])]
    IN  kept (+) new

Check(failed, msg) == IF failed THEN msg ELSE ""

-----------------------------------------------------------------------------
(* Service validation helpers *)

validateCreateRequest(req) ==
    FirstErr(<<
        Check(req.title = "", "event title is required"),
        Check(req.date = "", "event date is required"),
        Check(req.time = "", "event time is required"),
        Check(req.location = "", "event location is required"),
        Check(StrLen(req.title) > MaxTitleLen, "event title must not exceed 255 characters"),
        Check(StrLen(req.description) > MaxDescriptionLen,
              "event description must not exceed 1000 characters") >>)

validateDateFormat(date) ==
    Check(~ParseDate(date).ok, "invalid date format, use YYYY-MM-DD")

validateTimeFormat(timeStr) ==
    Check(~ParseTime(timeStr).ok, "invalid time format, use HH:MM:SS")

validateDateTime(date, timeStr) ==
    FirstErr(<<validateDateFormat(date), validateTimeFormat(timeStr)>>)

NotFuture(eventDateTime) == Before(eventDateTime, now)

validateFutureEvent(date, timeStr) ==
    IF ~ParseDateTime(date, timeStr).ok
    THEN "failed to parse event date and time"
    ELSE Check(NotFuture(ParseDateTime(date, timeStr).v),
               "event date and time must be in the future")

-----------------------------------------------------------------------------
(* Event service *)

UNCHANGED_STORE == UNCHANGED <<users, events, attendees, invitations, nextEventId, nextInvitationId>>

\* Service.CreateEvent: the checks made before Repository.CreateEvent
CreateEventChecks(req) ==
    FirstErr(<<validateCreateRequest(req),
               validateDateTime(req.date, req.time),
               validateFutureEvent(req.date, req.time)>>)

\* Service.CreateEvent up to and including Repository.CreateEvent
CreateEvent(p, organizerID, req) ==
    /\ rq[p].pc = "idle"
    /\ LET call == Call("CreateEvent", organizerID, 0, 0, "", "", req)
           err == CreateEventChecks(req)
       IN  IF err # ""
           THEN /\ rq' = [rq EXCEPT ![p] = Return(call, err)]
                /\ UNCHANGED <<events, nextEventId>>
           ELSE IF organizerID \notin DOMAIN users
           THEN /\ rq' = [rq EXCEPT ![p] =
                            Return(call, Wrap("failed to create event", ForeignKeyViolation))]
                /\ UNCHANGED <<events, nextEventId>>
           ELSE /\ nextEventId <= MaxEvents
                /\ events' = events @@
                       (nextEventId :> Event(req.title, req.description,
                                             ParseDate(req.date).v, ParseTime(req.time).v,
                                             req.location, organizerID, now))
                /\ nextEventId' = nextEventId + 1
                /\ rq' = [rq EXCEPT ![p] =
                            Goto([call EXCEPT !.id = nextEventId], "AddOrganizerAsAttendee")]
    /\ UNCHANGED <<users, attendees, invitations, nextInvitationId, now>>

\* An AddOrganizerAsAttendee that inserts the creator as a plain attendee.
OrganizerAsAttendee(userID, eventID) == EventAttendee(userID, eventID, "attendee", "going")

\* Repository.AddOrganizerAsAttendee: VALUES ($1, $2, 'organizer', 'going')
OrganizerAttendee(userID, eventID) == EventAttendee(userID, eventID, "organizer", "going")

\* Service.CreateEvent: Repository.AddOrganizerAsAttendee and the return
AddOrganizerAsAttendee(p) ==
    /\ rq[p].pc = "AddOrganizerAsAttendee"
    /\ LET res == InsertAttendee(OrganizerAttendee(rq[p].uid, rq[p].id))
       IN  /\ attendees' = res.rows
           /\ rq' = [rq EXCEPT ![p] = Return(@,
                        IF res.err = "" THEN ""
                        ELSE Wrap("failed to add organizer as attendee",
                                  Wrap("failed to add organizer as attendee", res.err)))]
    /\ UNCHANGED <<users, events, invitations, nextEventId, nextInvitationId, now>>

\* The error of a statement whose request context is cancelled or whose
\* connection is lost before the statement runs.
ContextCanceled == "context canceled"

\* An AddOrganizerAsAttendeeFails that undoes the insert of the event.
AddOrganizerAsAttendeeRollsBack(p) ==
    /\ rq[p].pc = "AddOrganizerAsAttendee"
    /\ events' = [e \in DOMAIN events \ {rq[p].id} |-> events[e]]
    /\ rq' = [rq EXCEPT ![p] = Return(@,
                 Wrap("failed to add organizer as attendee",
                      Wrap("failed to add organizer as attendee", ContextCanceled)))]
    /\ UNCHANGED <<users, attendees, invitations, nextEventId, nextInvitationId, now>>

\* Service.CreateEvent when Repository.AddOrganizerAsAttendee's Exec fails
\* without running the INSERT: the error is returned, nothing is undone.
AddOrganizerAsAttendeeFails(p) ==
    /\ rq[p].pc = "AddOrganizerAsAttendee"
    /\ rq' = [rq EXCEPT ![p] = Return(@,
                 Wrap("failed to add organizer as attendee",
                      Wrap("failed to add organizer as attendee", ContextCanceled)))]
    /\ UNCHANGED_STORE /\ UNCHANGED now

\* Service.JoinEvent up to the existence check
JoinEvent(p, userID, eventID) ==
    /\ rq[p].pc = "idle"
    /\ LET call == Call("JoinEvent", userID, eventID, 0, "", "", NoRequest)
           err == FirstErr(<<
               Check(userID <= 0, "invalid user ID"),
               Check(eventID <= 0, "invalid event ID"),
               Check(GetEventByID(eventID).err # "", "event not found") >>)
       IN  rq' = [rq EXCEPT ![p] =
                    IF err # "" THEN Return(call, err) ELSE Goto(call, "RepoJoinEvent")]
    /\ UNCHANGED_STORE /\ UNCHANGED now

\* Repository.JoinEvent: VALUES ($1, $2, 'attendee', 'going')
JoinedAttendee(userID, eventID) == EventAttendee(userID, eventID, "attendee", "going")

\* A RepoJoinEvent whose insert is ON CONFLICT DO NOTHING: the loser of a race
\* is told it joined.
RepoJoinEventSilent(p) ==
    /\ rq[p].pc = "RepoJoinEvent"
    /\ LET res == InsertAttendee(JoinedAttendee(rq[p].uid, rq[p].id))
       IN  /\ attendees' = res.rows
           /\ rq' = [rq EXCEPT ![p] = Return(@,
                        IF res.err \in {"", UniqueViolation} THEN ""
                        ELSE Wrap("failed to join event", res.err))]
    /\ UNCHANGED <<users, events, invitations, nextEventId, nextInvitationId, now>>

\* Repository.JoinEvent
RepoJoinEvent(p) ==
    /\ rq[p].pc = "RepoJoinEvent"
    /\ LET res == InsertAttendee(JoinedAttendee(rq[p].uid, rq[p].id))
       IN  /\ attendees' = res.rows
           /\ rq' = [rq EXCEPT ![p] = Return(@,
                        IF res.err = "" THEN "" ELSE Wrap("failed to join event", res.err))]
    /\ UNCHANGED <<users, events, invitations, nextEventId, nextInvitationId, now>>

\* InviteUserToEventChecks without the comparison with the organizer.
InviteUserToEventChecksAnyInviter(eventID, inviterID, userID, role) ==
    LET event == GetEventByID(eventID)
    IN  FirstErr(<<
            Check(eventID <= 0, "invalid event ID"),
            Check(inviterID <= 0, "invalid inviter ID"),
            Check(userID <= 0, "invalid user ID"),
            Check(role # "attendee" /\ role # "collaborator" /\ role # "organizer",
                  "invalid role: must be 'attendee', 'collaborator', or 'organizer'"),
            Check(event.err # "", "event not found"),
            Check(userID = inviterID, "you cannot invite yourself to the event") >>)

\* Service.InviteUserToEvent: the checks made before Repository.AddAttendee
InviteUserToEventChecks(eventID, inviterID, userID, role) ==
    LET event == GetEventByID(eventID)
    IN  FirstErr(<<
            Check(eventID <= 0, "invalid event ID"),
            Check(inviterID <= 0, "invalid inviter ID"),
            Check(userID <= 0, "invalid user ID"),
            Check(role # "attendee" /\ role # "collaborator" /\ role # "organizer",
                  "invalid role: must be 'attendee', 'collaborator', or 'organizer'"),
            Check(event.err # "", "event not found"),
            Check(event.event.organizer_id # inviterID,
                  "only the event creator can invite users to this event"),
            Check(userID = inviterID, "you cannot invite yourself to the event") >>)

\* Service.InviteUserToEvent up to the self-invite check
InviteUserToEvent(p, eventID, inviterID, userID, role) ==
    /\ rq[p].pc = "idle"
    /\ LET call == Call("InviteUserToEvent", inviterID, eventID, userID, role, "", NoRequest)
           err == InviteUserToEventChecks(eventID, inviterID, userID, role)
       IN  rq' = [rq EXCEPT ![p] =
                    IF err # "" THEN Return(call, err) ELSE Goto(call, "AddAttendee")]
    /\ UNCHANGED_STORE /\ UNCHANGED now

\* An AddAttendee that inserts every invitee as a plain attendee.
InvitedAsAttendee(eventID, userID, role) == EventAttendee(userID, eventID, "attendee", "going")

\* Repository.AddAttendee: VALUES ($1, $2, $3, 'going')
InvitedAttendee(eventID, userID, role) == EventAttendee(userID, eventID, role, "going")

\* An AddAttendee that makes an invitee of role organizer the organizer_id
\* of the event.
AddAttendeeTransfers(p) ==
    /\ rq[p].pc = "AddAttendee"
    /\ LET res == InsertAttendee(InvitedAttendee(rq[p].id, rq[p].tgt, rq[p].val))
       IN  /\ attendees' = res.rows
           /\ events' = IF res.err = "" /\ rq[p].val = "organizer"
                        THEN [events EXCEPT ![rq[p].id].organizer_id = rq[p].tgt]
                        ELSE events
           /\ rq' = [rq EXCEPT ![p] = Return(@,
                        IF res.err = "" THEN "" ELSE Wrap("failed to add user to event", res.err))]
    /\ UNCHANGED <<users, invitations, nextEventId, nextInvitationId, now>>

\* Repository.AddAttendee
AddAttendee(p) ==
    /\ rq[p].pc = "AddAttendee"
    /\ LET res == InsertAttendee(InvitedAttendee(rq[p].id, rq[p].tgt, rq[p].val))
       IN  /\ attendees' = res.rows
           /\ rq' = [rq EXCEPT ![p] = Return(@,
                        IF res.err = "" THEN "" ELSE Wrap("failed to add user to event", res.err))]
    /\ UNCHANGED <<users, events, invitations, nextEventId, nextInvitationId, now>>

\* Service.UpdateAttendanceStatus with Repository.UpdateAttendanceStatus
UpdateAttendanceStatus(p, userID, eventID, status) ==
    /\ rq[p].pc = "idle"
    /\ LET call == Call("UpdateAttendanceStatus", userID, eventID, 0, status, "", NoRequest)
           err == FirstErr(<<
               Check(userID <= 0, "invalid user ID"),
               Check(eventID <= 0, "invalid event ID"),
               Check(status \notin {"going", "maybe", "not_going"},
                     "invalid status: must be 'going', 'maybe', or 'not_going'"),
               Check(RowsOf(userID, eventID) = {}, "attendance record not found") >>)
       IN  /\ rq' = [rq EXCEPT ![p] = Return(call, err)]
           /\ attendees' = IF err # "" THEN attendees ELSE SetStatus(userID, eventID, status)
    /\ UNCHANGED <<users, events, invitations, nextEventId, nextInvitationId, now>>

\* An UpdateEvent that writes the patch's strings whether empty or not.
ApplyUpdatesAll(currentEvent, updates) ==
    [currentEvent EXCEPT
        !.title = updates.title,
        !.description = updates.description,
        !.date = IF updates.date # "" THEN ParseDate(updates.date).v ELSE @,
        !.time = IF updates.time # "" THEN ParseTime(updates.time).v ELSE @,
        !.location = updates.location]

\* Repository.UpdateEvent: "Apply updates (only non-empty fields)"
ApplyUpdates(currentEvent, updates) ==
    [currentEvent EXCEPT
        !.title = IF updates.title # "" THEN updates.title ELSE @,
        !.description = IF updates.description # "" THEN updates.description ELSE @,
        !.date = IF updates.date # "" THEN ParseDate(updates.date).v ELSE @,
        !.time = IF updates.time # "" THEN ParseTime(updates.time).v ELSE @,
        !.location = IF updates.location # "" THEN updates.location ELSE @]

\* A validation of the patch that looks at the formats only.
validateUpdateFormats(req) ==
    IF req.date # "" /\ req.time # "" THEN validateDateTime(req.date, req.time)
    ELSE IF req.date # "" THEN validateDateFormat(req.date)
    ELSE IF req.time # "" THEN validateTimeFormat(req.time)
    ELSE ""

\* Service.UpdateEvent: "Validate date and time if provided"
validateUpdateRequest(req) ==
    IF req.date # "" /\ req.time # ""
    THEN FirstErr(<<validateDateTime(req.date, req.time),
                    validateFutureEvent(req.date, req.time)>>)
    ELSE IF req.date # "" THEN validateDateFormat(req.date)
    ELSE IF req.time # "" THEN validateTimeFormat(req.time)
    ELSE ""

\* UpdateEventChecks without the comparison with the organizer.
UpdateEventChecksAnyCaller(eventID, req, organizerID) ==
    LET event == GetEventByID(eventID)
    IN  FirstErr(<<
            Check(eventID <= 0, "invalid event ID"),
            event.err,
            validateUpdateRequest(req) >>)

\* Service.UpdateEvent: the checks made before Repository.UpdateEvent
UpdateEventChecks(eventID, req, organizerID) ==
    LET event == GetEventByID(eventID)
    IN  FirstErr(<<
            Check(eventID <= 0, "invalid event ID"),
            event.err,
            Check(event.event.organizer_id # organizerID,
                  "you are not authorized to update this event"),
            validateUpdateRequest(req) >>)

\* Service.UpdateEvent up to the validation of the patch
UpdateEvent(p, eventID, req, organizerID) ==
    /\ rq[p].pc = "idle"
    /\ LET call == Call("UpdateEvent", organizerID, eventID, 0, "", "", req)
           err == UpdateEventChecks(eventID, req, organizerID)
       IN  rq' = [rq EXCEPT ![p] =
                    IF err # "" THEN Return(call, err) ELSE Goto(call, "RepoUpdateEventGet")]
    /\ UNCHANGED_STORE /\ UNCHANGED now

\* Repository.UpdateEvent: "First, get the current event" and apply the patch
RepoUpdateEventGet(p) ==
    /\ rq[p].pc = "RepoUpdateEventGet"
    /\ LET event == GetEventByID(rq[p].id)
           err == FirstErr(<<
               event.err,
               Check(rq[p].req.date # "" /\ ~ParseDate(rq[p].req.date).ok, "invalid date format"),
               Check(rq[p].req.time # "" /\ ~ParseTime(rq[p].req.time).ok, "invalid time format") >>)
       IN  rq' = [rq EXCEPT ![p] =
                    IF err # "" THEN Return(@, err)
                    ELSE Goto([@ EXCEPT !.cur = ApplyUpdates(event.event, rq[p].req)],
                              "RepoUpdateEventSet")]
    /\ UNCHANGED_STORE /\ UNCHANGED now

\* A RepoUpdateEventSet that writes only the columns the patch names.
RepoUpdateEventSetPatched(p) ==
    /\ rq[p].pc = "RepoUpdateEventSet"
    /\ IF rq[p].id \in DOMAIN events
       THEN /\ events' = [events EXCEPT ![rq[p].id] = ApplyUpdates(@, rq[p].req)]
            /\ rq' = [rq EXCEPT ![p] = Return(@, "")]
       ELSE /\ rq' = [rq EXCEPT ![p] = Return(@, Wrap("failed to update event", NoRows))]
            /\ UNCHANGED events
    /\ UNCHANGED <<users, attendees, invitations, nextEventId, nextInvitationId, now>>

\* Repository.UpdateEvent: UPDATE events SET title, description, date, time,
\* location WHERE id = $6 RETURNING ...
RepoUpdateEventSet(p) ==
    /\ rq[p].pc = "RepoUpdateEventSet"
    /\ IF rq[p].id \in DOMAIN events
       THEN /\ events' = [events EXCEPT ![rq[p].id] =
                            [@ EXCEPT !.title = rq[p].cur.title,
                                      !.description = rq[p].cur.description,
                                      !.date = rq[p].cur.date,
                                      !.time = rq[p].cur.time,
                                      !.location = rq[p].cur.location]]
            /\ rq' = [rq EXCEPT ![p] = Return(@, "")]
       ELSE /\ rq' = [rq EXCEPT ![p] = Return(@, Wrap("failed to update event", NoRows))]
            /\ UNCHANGED events
    /\ UNCHANGED <<users, attendees, invitations, nextEventId, nextInvitationId, now>>

\* Service.DeleteEvent: the checks made before Repository.DeleteEvent
DeleteEventChecks(eventID, organizerID) ==
    LET event == GetEventByID(eventID)
    IN  FirstErr(<<
            Check(eventID <= 0, "invalid event ID"),
            event.err,
            Check(event.event.organizer_id # organizerID,
                  "you are not authorized to delete this event") >>)

\* Service.DeleteEvent up to the ownership check
DeleteEvent(p, eventID, organizerID) ==
    /\ rq[p].pc = "idle"
    /\ LET call == Call("DeleteEvent", organizerID, eventID, 0, "", "", NoRequest)
           err == DeleteEventChecks(eventID, organizerID)
       IN  rq' = [rq EXCEPT ![p] =
                    IF err # "" THEN Return(call, err) ELSE Goto(call, "RepoDeleteEvent")]
    /\ UNCHANGED_STORE /\ UNCHANGED now

\* A RepoDeleteEvent that does not look at the rows affected.
RepoDeleteEventUnchecked(p) ==
    /\ rq[p].pc = "RepoDeleteEvent"
    /\ IF rq[p].id \in DOMAIN events
       THEN /\ events' = [e \in DOMAIN events \ {rq[p].id} |-> events[e]]
            /\ attendees' = CascadeAttendees(rq[p].id)
            /\ invitations' = CascadeInvitations(rq[p].id)
       ELSE UNCHANGED <<events, attendees, invitations>>
    /\ rq' = [rq EXCEPT ![p] = Return(@, "")]
    /\ UNCHANGED <<users, nextEventId, nextInvitationId, now>>

\* Repository.DeleteEvent
RepoDeleteEvent(p) ==
    /\ rq[p].pc = "RepoDeleteEvent"
    /\ IF rq[p].id \in DOMAIN events
       THEN /\ events' = [e \in DOMAIN events \ {rq[p].id} |-> events[e]]
            /\ attendees' = CascadeAttendees(rq[p].id)
            /\ invitations' = CascadeInvitations(rq[p].id)
            /\ rq' = [rq EXCEPT ![p] = Return(@, "")]
       ELSE /\ rq' = [rq EXCEPT ![p] = Return(@, "event not found")]
            /\ UNCHANGED <<events, attendees, invitations>>
    /\ UNCHANGED <<users, nextEventId, nextInvitationId, now>>

-----------------------------------------------------------------------------
(* Invitation service *)

Invitation(eventID, inviterID, inviteeEmail, inviteeID, role, status, message, respondedAt) ==
    [event_id |-> eventID, inviter_id |-> inviterID, invitee_email |-> inviteeEmail,
     invitee_id |-> inviteeID, role |-> role, status |-> status, message |-> message,
     responded_at |-> respondedAt]

NoInvitation == Invitation(0, 0, "", NullId, "", "", "", NoTime)

SendInvitationRequest(eventID, inviteeEmail, role, message) ==
    [event_id |-> eventID, invitee_email |-> inviteeEmail, role |-> role, message |-> message]

\* The addresses ^[a-zA-Z0-9._%+-]+@[a-zA-Z0-9.-]+\.[a-zA-Z]{2,}$ matches, among
\* the strings requests carry.
WellFormedEmails == {"ann@x.io", "bob@x.io", "cat@x.io"}

isValidEmail(email) == StrLen(email) <= 254 /\ email \in WellFormedEmails

validateSendInvitationRequest(req) ==
    FirstErr(<<
        Check(req.event_id <= 0, "invalid event ID"),
        Check(req.invitee_email = "", "invitee email is required"),
        Check(~isValidEmail(req.invitee_email), "invalid email format"),
        Check(req.role # "attendee" /\ req.role # "collaborator",
              "invalid role: must be 'attendee' or 'collaborator'"),
        Check(StrLen(req.message) > MaxMessageLen, "message must not exceed 500 characters") >>)

\* GetUserIDByEmail that resolves no address.
GetUserIDByEmailNone(email) == NullId

\* Repository.GetUserIDByEmail
GetUserIDByEmail(email) ==
    IF \E u \in DOMAIN users : users[u].email = email
    THEN CHOOSE u \in DOMAIN users : users[u].email = email
    ELSE NullId

\* Repository.GetInvitationByID
GetInvitationByID(invitationID) ==
    IF invitationID \in DOMAIN invitations
    THEN [err |-> "", invitation |-> invitations[invitationID]]
    ELSE [err |-> Wrap("failed to get invitation", NoRows), invitation |-> NoInvitation]

\* The invitations table: event_id and inviter_id reference events and users,
\* status defaults to 'pending', responded_at to NULL.
InvitationDefaults(inv) == [inv EXCEPT !.status = "pending", !.responded_at = NoTime]

InvitationConstraints(inv) ==
    Check(inv.event_id \notin DOMAIN events \/ inv.inviter_id \notin DOMAIN users,
          ForeignKeyViolation)

\* Service.SendInvitation up to and including Repository.GetUserIDByEmail
SendInvitation(p, req, inviterID) ==
    /\ rq[p].pc = "idle"
    /\ LET call == [Call("SendInvitation", inviterID, req.event_id, 0, req.role,
                         req.invitee_email, NoRequest) EXCEPT !.msg = req.message]
           err == validateSendInvitationRequest(req)
       IN  rq' = [rq EXCEPT ![p] =
                    IF err # "" THEN Return(call, err)
                    ELSE Goto([call EXCEPT !.tgt = GetUserIDByEmail(req.invitee_email)],
                              "RepoSendInvitation")]
    /\ UNCHANGED_STORE /\ UNCHANGED now

\* Repository.SendInvitation
RepoSendInvitation(p) ==
    /\ rq[p].pc = "RepoSendInvitation"
    /\ LET invitation == InvitationDefaults(
               Invitation(rq[p].id, rq[p].uid, rq[p].email, rq[p].tgt, rq[p].val,
                          "pending", rq[p].msg, NoTime))
           err == InvitationConstraints(invitation)
       IN  IF err # ""
           THEN /\ rq' = [rq EXCEPT ![p] = Return(@, Wrap("failed to send invitation", err))]
                /\ UNCHANGED <<invitations, nextInvitationId>>
           ELSE /\ nextInvitationId <= MaxInvitations
                /\ invitations' = invitations @@ (nextInvitationId :> invitation)
                /\ nextInvitationId' = nextInvitationId + 1
                /\ rq' = [rq EXCEPT ![p] = Return(@, "")]
    /\ UNCHANGED <<users, events, attendees, nextEventId, now>>

\* RespondToInvitationChecks without the pending check.
RespondToInvitationChecksAnyStatus(invitationID, status, userEmail) ==
    LET got == GetInvitationByID(invitationID)
    IN  FirstErr(<<
            Check(userEmail = "", "email parameter is required"),
            Check(status # "accepted" /\ status # "declined",
                  "invalid status: must be 'accepted' or 'declined'"),
            Check(got.err # "", Wrap("invitation not found", got.err)),
            Check(got.invitation.invitee_email # userEmail,
                  "you are not authorized to respond to this invitation") >>)

\* RespondToInvitationChecks without the comparison of emails.
RespondToInvitationChecksAnyEmail(invitationID, status, userEmail) ==
    LET got == GetInvitationByID(invitationID)
    IN  FirstErr(<<
            Check(userEmail = "", "email parameter is required"),
            Check(status # "accepted" /\ status # "declined",
                  "invalid status: must be 'accepted' or 'declined'"),
            Check(got.err # "", Wrap("invitation not found", got.err)),
            Check(got.invitation.status # "pending",
                  "invitation has already been responded to") >>)

\* Handler.RespondToInvitation (the email parameter) and
\* Service.RespondToInvitation: the checks made before
\* Repository.UpdateInvitationStatus
RespondToInvitationChecks(invitationID, status, userEmail) ==
    LET got == GetInvitationByID(invitationID)
    IN  FirstErr(<<
            Check(userEmail = "", "email parameter is required"),
            Check(status # "accepted" /\ status # "declined",
                  "invalid status: must be 'accepted' or 'declined'"),
            Check(got.err # "", Wrap("invitation not found", got.err)),
            Check(got.invitation.invitee_email # userEmail,
                  "you are not authorized to respond to this invitation"),
            Check(got.invitation.status # "pending",
                  "invitation has already been responded to") >>)

\* Handler.RespondToInvitation and Service.RespondToInvitation up to the
\* pending check
RespondToInvitation(p, invitationID, status, userEmail) ==
    /\ rq[p].pc = "idle"
    /\ LET call == Call("RespondToInvitation", 0, invitationID, 0, status, userEmail, NoRequest)
           err == RespondToInvitationChecks(invitationID, status, userEmail)
       IN  rq' = [rq EXCEPT ![p] =
                    IF err # "" THEN Return(call, err)
                    ELSE Goto(call, "UpdateInvitationStatus")]
    /\ UNCHANGED_STORE /\ UNCHANGED now

\* UpdateInvitationStatus that makes the invitee of an accepted invitation an
\* attendee of the event.
UpdateInvitationStatusAndAttend(p) ==
    /\ rq[p].pc = "UpdateInvitationStatus"
    /\ invitations' =
          IF rq[p].id \in DOMAIN invitations
          THEN [invitations EXCEPT ![rq[p].id] =
                   [@ EXCEPT !.status = rq[p].val, !.responded_at = now]]
          ELSE invitations
    /\ attendees' =
          IF rq[p].id \in DOMAIN invitations /\ rq[p].val = "accepted"
          THEN attendees (+) SetToBag({EventAttendee(invitations[rq[p].id].invitee_id,
                                                    invitations[rq[p].id].event_id,
                                                    invitations[rq[p].id].role, "going")})
          ELSE attendees
    /\ rq' = [rq EXCEPT ![p] = Return(@, "")]
    /\ UNCHANGED <<users, events, nextEventId, nextInvitationId, now>>

\* Repository.UpdateInvitationStatus:
\* UPDATE invitations SET status = $1, responded_at = $2 WHERE id = $3
UpdateInvitationStatus(p) ==
    /\ rq[p].pc = "UpdateInvitationStatus"
    /\ invitations' =
          IF rq[p].id \in DOMAIN invitations
          THEN [invitations EXCEPT ![rq[p].id] =
                   [@ EXCEPT !.status = rq[p].val, !.responded_at = now]]
          ELSE invitations
    /\ rq' = [rq EXCEPT ![p] = Return(@, "")]
    /\ UNCHANGED <<users, events, attendees, nextEventId, nextInvitationId, now>>

-----------------------------------------------------------------------------
(* Auth service *)

RegisterRequest(email, password) == [email |-> email, password |-> password]

\* bcrypt.GenerateFromPassword, kept symbolic
HashPassword(password) == "bcrypt(" \o password \o ")"

\* bcrypt.CompareHashAndPassword
CompareHashAndPassword(hash, password) == hash = HashPassword(password)

\* JWT_SECRET, or its default for development
JwtSecret == "your-secret-key"

TokenLifetimeDays == 7

\* A generateToken whose token has expired when it is issued.
generateExpiredToken(userID) == Token(userID, now, "HS256", JwtSecret)

\* Service.generateToken: user_id and exp = now + 7 days, signed with HS256
generateToken(userID) ==
    Token(userID, <<now[1] + TokenLifetimeDays, now[2]>>, "HS256", JwtSecret)

\* Service.ValidateToken at the instant `at`: the key function refuses a
\* signing method outside the HMAC family, jwt.Parse an invalid signature and
\* an expired token; user_id is read back from a float64.
ValidateTokenAt(token, at) ==
    LET err == FirstErr(<<
            Check(token.alg \notin {"HS256", "HS384", "HS512"}, "unexpected signing method"),
            Check(token.key # JwtSecret, "signature is invalid"),
            Check(~Before(at, token.exp), "token is expired") >>)
    IN  [err |-> err, user_id |-> IF err = "" THEN token.user_id ELSE 0]

\* A Register whose token cannot be signed after the user is inserted.
RegisterThenTokenFails(p, req) ==
    /\ rq[p].pc = "idle"
    /\ LET call == Call("Register", 0, 0, 0, "", req.email, NoRequest)
       IN  IF \E u \in DOMAIN users : users[u].email = req.email
           THEN /\ rq' = [rq EXCEPT ![p] =
                            Return(call, Wrap("failed to create user", UniqueViolation))]
                /\ UNCHANGED users
           ELSE /\ users' = users @@
                       (Cardinality(DOMAIN users) + 1 :>
                           [email |-> req.email, password_hash |-> HashPassword(req.password)])
                /\ rq' = [rq EXCEPT ![p] =
                            Return(call, Wrap("failed to generate token", "key is invalid"))]
    /\ UNCHANGED <<events, attendees, invitations, nextEventId, nextInvitationId, now>>

\* A Register into a users table without UNIQUE(email).
RegisterUnchecked(p, req) ==
    /\ rq[p].pc = "idle"
    /\ users' = users @@
           (Cardinality(DOMAIN users) + 1 :>
               [email |-> req.email, password_hash |-> HashPassword(req.password)])
    /\ rq' = [rq EXCEPT ![p] =
                 [Return(Call("Register", 0, 0, 0, "", req.email, NoRequest), "") EXCEPT
                     !.token = generateToken(Cardinality(DOMAIN users) + 1)]]
    /\ UNCHANGED <<events, attendees, invitations, nextEventId, nextInvitationId, now>>

\* Service.Register: INSERT INTO users (email, password_hash), refused by
\* UNIQUE(email); the serial id is the next one, the ids in use being 1..n.
\* Signing the token with HS256 and a byte-string key does not fail.
Register(p, req) ==
    /\ rq[p].pc = "idle"
    /\ LET call == Call("Register", 0, 0, 0, "", req.email, NoRequest)
       IN  IF \E u \in DOMAIN users : users[u].email = req.email
           THEN /\ rq' = [rq EXCEPT ![p] =
                            Return(call, Wrap("failed to create user", UniqueViolation))]
                /\ UNCHANGED users
           ELSE /\ users' = users @@
                       (Cardinality(DOMAIN users) + 1 :>
                           [email |-> req.email, password_hash |-> HashPassword(req.password)])
                /\ rq' = [rq EXCEPT ![p] =
                            [Return(call, "") EXCEPT
                                !.token = generateToken(Cardinality(DOMAIN users) + 1)]]
    /\ UNCHANGED <<events, attendees, invitations, nextEventId, nextInvitationId, now>>

\* The request validation of POST /auth/register: email and password are
\* required.
validateRegisterRequest(req) ==
    FirstErr(<<
        Check(req.email = "", "email is required"),
        Check(req.password = "", "password is required") >>)

\* POST /auth/register: the request validation, then Service.Register
HandlerRegister(p, req) ==
    IF validateRegisterRequest(req) # ""
    THEN /\ rq[p].pc = "idle"
         /\ rq' = [rq EXCEPT ![p] =
                     Return(Call("Register", 0, 0, 0, "", req.email, NoRequest),
                            validateRegisterRequest(req))]
         /\ UNCHANGED_STORE /\ UNCHANGED now
    ELSE Register(p, req)

InvalidCredentials == "invalid email or password"

\* A Login that tells an unknown email from a wrong password.
LoginResultTelling(req) ==
    IF \A u \in DOMAIN users : users[u].email # req.email
    THEN [err |-> "user not found", token |-> NoToken]
    ELSE LET u == CHOOSE v \in DOMAIN users : users[v].email = req.email
         IN  IF ~CompareHashAndPassword(users[u].password_hash, req.password)
             THEN [err |-> InvalidCredentials, token |-> NoToken]
             ELSE [err |-> "", token |-> generateToken(u)]

\* Service.Login: SELECT ... FROM users WHERE email = $1, the comparison of
\* the password with the hash, and the token
LoginResult(req) ==
    IF \A u \in DOMAIN users : users[u].email # req.email
    THEN [err |-> InvalidCredentials, token |-> NoToken]
    ELSE LET u == CHOOSE v \in DOMAIN users : users[v].email = req.email
         IN  IF ~CompareHashAndPassword(users[u].password_hash, req.password)
             THEN [err |-> InvalidCredentials, token |-> NoToken]
             ELSE [err |-> "", token |-> generateToken(u)]

\* Service.Login
Login(p, req) ==
    /\ rq[p].pc = "idle"
    /\ LET res == LoginResult(req)
       IN  rq' = [rq EXCEPT ![p] =
                    [Return(Call("Login", 0, 0, 0, "", req.email, NoRequest), res.err)
                        EXCEPT !.email = req.email, !.token = res.token]]
    /\ UNCHANGED_STORE /\ UNCHANGED now

\* Service.ValidateToken, called with a token a client presents
ValidateToken(p, token) ==
    /\ rq[p].pc = "idle"
    /\ LET res == ValidateTokenAt(token, now)
       IN  rq' = [rq EXCEPT ![p] =
                    [Return(Call("ValidateToken", 0, 0, 0, "", "", NoRequest), res.err)
                        EXCEPT !.tgt = res.user_id]]
    /\ UNCHANGED_STORE /\ UNCHANGED now

-----------------------------------------------------------------------------
(* HTTP handlers of the event package *)

\* Service.GetEventByID behind GET /events/{id}: a read
ServiceGetEventByID(p, eventID) ==
    /\ rq[p].pc = "idle"
    /\ rq' = [rq EXCEPT ![p] =
                 Return(Call("GetEventByID", 0, eventID, 0, "", "", NoRequest),
                        FirstErr(<<Check(eventID <= 0, "invalid event ID"),
                                   GetEventByID(eventID).err>>))]
    /\ UNCHANGED_STORE /\ UNCHANGED now

StatusOK == 200
StatusCreated == 201
StatusBadRequest == 400
StatusForbidden == 403
StatusNotFound == 404

\* The status each handler answers with, given the error of its service call.
HandlerStatus(op, err) ==
    IF err = "" THEN (IF op = "CreateEvent" THEN StatusCreated ELSE StatusOK)
    ELSE IF op = "GetEventByID" THEN StatusNotFound
    ELSE IF op = "UpdateEvent" /\ err = "you are not authorized to update this event"
    THEN StatusForbidden
    ELSE IF op = "DeleteEvent" /\ err = "you are not authorized to delete this event"
    THEN StatusForbidden
    ELSE IF op = "InviteUserToEvent"
            /\ err = "only the event creator can invite users to this event"
    THEN StatusForbidden
    ELSE StatusBadRequest

\* The handler writes the response and the connection is free again.
Reply(p) ==
    /\ rq[p].pc = "done"
    /\ rq' = [rq EXCEPT ![p] = Idle]
    /\ UNCHANGED_STORE /\ UNCHANGED now

\* Time passes, to one of the instants `later`.
Tick(later) ==
    /\ \E t \in later : Before(now, t) /\ now' = t
    /\ UNCHANGED_STORE /\ UNCHANGED rq

-----------------------------------------------------------------------------
(* Specifications *)

\* Two registered accounts; the store holds no event and no invitation yet.
Ann == 1
Bob == Ann + 1
Nobody == Bob + 1     \* an id no user row has

RegisteredUsers ==
    (Ann :> [email |-> "ann@x.io", password_hash |-> "bcrypt(ann-pw)"]) @@
    (Bob :> [email |-> "bob@x.io", password_hash |-> "bcrypt(bob-pw)"])

Init ==
    /\ users = RegisteredUsers
    /\ events = <<>>
    /\ attendees = EmptyBag
    /\ invitations = <<>>
    /\ nextEventId = 1
    /\ nextInvitationId = 1
    /\ now = <<0, 0>>
    /\ rq = [p \in Conns |-> Idle]

EventIds == 1 .. MaxEvents

Standup == EventRequest("Standup", "", DateStrings[2], TimeStrings[1], "Room 1")

\* Arguments of the attendance endpoints: a valid and an invalid value of
\* each, and an invitee that is no user.
InviteRoles == {"collaborator", "organizer", "guest"}
InviteTargets == DOMAIN RegisteredUsers \cup {Nobody}
NewStatuses == {"maybe", "late"}

\* Attendance: concurrent requests of the event and attendance endpoints.
NextAtt ==
    \/ \E p \in Conns : CreateEvent(p, Ann, Standup)
    \/ \E p \in Conns : AddOrganizerAsAttendee(p)
    \/ \E p \in Conns, u \in DOMAIN users, e \in EventIds : JoinEvent(p, u, e)
    \/ \E p \in Conns : RepoJoinEvent(p)
    \/ \E p \in Conns, e \in EventIds, u \in DOMAIN users, t \in InviteTargets,
          r \in InviteRoles :
          InviteUserToEvent(p, e, u, t, r)
    \/ \E p \in Conns : AddAttendee(p)
    \/ \E p \in Conns, u \in DOMAIN users, e \in EventIds,
          s \in NewStatuses :
          UpdateAttendanceStatus(p, u, e, s)
    \/ \E p \in Conns, e \in EventIds, u \in DOMAIN users : DeleteEvent(p, e, u)
    \/ \E p \in Conns : RepoDeleteEvent(p)
    \/ \E p \in Conns : Reply(p)

SpecAtt == Init /\ [][NextAtt]_vars

\* Requests of the event endpoints: well-formed ones at every date and time,
\* and one for each way validation can fail.
CreateRequests ==
    {EventRequest("Standup", "", d, t, "Room 1") :
        d \in {DateStrings[1], DateStrings[2]}, t \in {TimeStrings[1], TimeStrings[2]}}
    \cup {EventRequest("", "", DateStrings[2], TimeStrings[1], "Room 1"),
          EventRequest("Standup", "", "", TimeStrings[1], "Room 1"),
          EventRequest("Standup", "", DateStrings[2], "", "Room 1"),
          EventRequest("Standup", "", DateStrings[2], TimeStrings[1], ""),
          EventRequest(LongTitle, "", DateStrings[2], TimeStrings[1], "Room 1"),
          EventRequest("Standup", LongDescription, DateStrings[2], TimeStrings[1], "Room 1"),
          EventRequest("Standup", "", "02/01/2030", TimeStrings[1], "Room 1"),
          EventRequest("Standup", "", DateStrings[2], "9am", "Room 1")}

UpdateRequests ==
    {NoRequest,
     EventRequest("Retro", "", "", "", ""),
     EventRequest("", "", DateStrings[1], "", ""),
     EventRequest("", "", "", TimeStrings[2], ""),
     EventRequest("", "", DateStrings[2], TimeStrings[2], ""),
     EventRequest("", "", DateStrings[1], TimeStrings[1], ""),
     EventRequest("", "", "02/01/2030", "", ""),
     EventRequest("", "", "", "9am", ""),
     EventRequest("", "", DateStrings[2], "9am", "")}

\* Events: one request at a time on the event endpoints, while time passes.
NextSeq ==
    \/ \E p \in OneConn, u \in DOMAIN users, r \in CreateRequests : CreateEvent(p, u, r)
    \/ \E p \in OneConn : AddOrganizerAsAttendee(p)
    \/ \E p \in OneConn, e \in EventIds, r \in UpdateRequests, u \in DOMAIN users :
          UpdateEvent(p, e, r, u)
    \/ \E p \in OneConn : RepoUpdateEventGet(p)
    \/ \E p \in OneConn : RepoUpdateEventSet(p)
    \/ \E p \in OneConn, e \in EventIds, u \in DOMAIN users : DeleteEvent(p, e, u)
    \/ \E p \in OneConn : RepoDeleteEvent(p)
    \/ \E p \in OneConn : Reply(p)
    \/ Tick(Instants)

SpecSeq == Init /\ [][NextSeq]_vars

\* Invitations: concurrent requests of the invitation endpoints against a
\* store that holds Ann's event, while time passes.
InitInv ==
    /\ users = RegisteredUsers
    /\ events = (1 :> Event("Standup", "", 1, 0, "Room 1", Ann, <<0, 0>>))
    /\ attendees = SetToBag({EventAttendee(Ann, 1, "organizer", "going")})
    /\ invitations = <<>>
    /\ nextEventId = 2
    /\ nextInvitationId = 1
    /\ now = <<0, 0>>
    /\ rq = [p \in Conns |-> Idle]

SendInvitationRequests ==
    {SendInvitationRequest(1, "bob@x.io", "attendee", ""),
     SendInvitationRequest(1, "cat@x.io", "collaborator", ""),
     SendInvitationRequest(2, "bob@x.io", "attendee", ""),
     SendInvitationRequest(0, "bob@x.io", "attendee", ""),
     SendInvitationRequest(1, "", "attendee", ""),
     SendInvitationRequest(1, "bob at x.io", "attendee", ""),
     SendInvitationRequest(1, "bob@x.io", "organizer", ""),
     SendInvitationRequest(1, "bob@x.io", "attendee", LongMessage)}

InvitationIds == 1 .. MaxInvitations
ResponseStatuses == {"accepted", "declined", "maybe"}
ResponseEmails == {"bob@x.io", "cat@x.io", "ann@x.io", ""}

NextInv ==
    \/ \E p \in Conns, r \in SendInvitationRequests, u \in DOMAIN users :
          SendInvitation(p, r, u)
    \/ \E p \in Conns : RepoSendInvitation(p)
    \/ \E p \in Conns, i \in InvitationIds,
          s \in ResponseStatuses, m \in ResponseEmails :
          RespondToInvitation(p, i, s, m)
    \/ \E p \in Conns : UpdateInvitationStatus(p)
    \/ \E p \in Conns : Reply(p)
    \/ Tick({<<0, 1>>})

SpecInv == InitInv /\ [][NextInv]_vars

\* Patches: one request at a time on PUT /events/{id}, against a store that
\* holds an event of each user, with a patch for every field.
PatchedEvents ==
    (1 :> Event("Standup", "", 1, 0, "Room 1", Ann, <<0, 0>>)) @@
    (2 :> Event("Demo", "Quarterly", 1, 0, "Hall", Bob, <<0, 0>>))

InitPatch ==
    /\ users = RegisteredUsers
    /\ events = PatchedEvents
    /\ attendees = SetToBag({OrganizerAttendee(Ann, 1), OrganizerAttendee(Bob, 2)})
    /\ invitations = <<>>
    /\ nextEventId = 3
    /\ nextInvitationId = 1
    /\ now = <<0, 0>>
    /\ rq = [p \in Conns |-> Idle]

PatchRequests ==
    {NoRequest,
     EventRequest("Retro", "", "", "", ""),
     EventRequest("", "Weekly", "", "", ""),
     EventRequest("", "", "", "", "Room 2"),
     EventRequest("", "", DateStrings[1], "", ""),
     EventRequest("", "", "", TimeStrings[2], ""),
     EventRequest("", "", DateStrings[1], TimeStrings[2], ""),
     EventRequest("Retro", "", "", "", "Room 2")}

NextPatch ==
    \/ \E p \in OneConn, e \in DOMAIN PatchedEvents, r \in PatchRequests, u \in DOMAIN users :
          UpdateEvent(p, e, r, u)
    \/ \E p \in OneConn : RepoUpdateEventGet(p)
    \/ \E p \in OneConn : RepoUpdateEventSet(p)
    \/ \E p \in OneConn : Reply(p)

SpecPatch == InitPatch /\ [][NextPatch]_vars

\* Deletion: concurrent requests that add attendee rows and invitations to
\* Ann's event while its organizer deletes it.
DeletedInvitations ==
    {SendInvitationRequest(1, "bob@x.io", "attendee", ""),
     SendInvitationRequest(1, "cat@x.io", "collaborator", "")}

NextDel ==
    \/ \E p \in Conns, u \in DOMAIN users, e \in EventIds : JoinEvent(p, u, e)
    \/ \E p \in Conns : RepoJoinEvent(p)
    \/ \E p \in Conns, e \in EventIds, u \in DOMAIN users, t \in DOMAIN users :
          InviteUserToEvent(p, e, u, t, "collaborator")
    \/ \E p \in Conns : AddAttendee(p)
    \/ \E p \in Conns, r \in DeletedInvitations, u \in DOMAIN users :
          SendInvitation(p, r, u)
    \/ \E p \in Conns : RepoSendInvitation(p)
    \/ \E p \in Conns, e \in EventIds, u \in DOMAIN users : DeleteEvent(p, e, u)
    \/ \E p \in Conns : RepoDeleteEvent(p)
    \/ \E p \in Conns : Reply(p)

SpecDel == InitInv /\ [][NextDel]_vars

\* Creation: concurrent requests that create, join and delete events, where
\* the second statement of CreateEvent may fail.
NextCrash ==
    \/ \E p \in Conns, u \in DOMAIN users : CreateEvent(p, u, Standup)
    \/ \E p \in Conns : AddOrganizerAsAttendee(p)
    \/ \E p \in Conns : AddOrganizerAsAttendeeFails(p)
    \/ \E p \in Conns, u \in DOMAIN users, e \in EventIds : JoinEvent(p, u, e)
    \/ \E p \in Conns : RepoJoinEvent(p)
    \/ \E p \in Conns, e \in EventIds, u \in DOMAIN users : DeleteEvent(p, e, u)
    \/ \E p \in Conns : RepoDeleteEvent(p)
    \/ \E p \in Conns : Reply(p)

SpecCrash == Init /\ [][NextCrash]_vars

\* Failures: concurrent requests of every endpoint that writes, except
\* POST /events, each with arguments that pass and arguments that fail,
\* against a store that holds Ann's event.
RegisterRequests ==
    {RegisterRequest("ann@x.io", "pw"), RegisterRequest("cat@x.io", "pw")}

FailingPatches ==
    {EventRequest("Retro", "", "", "", ""), EventRequest("", "", "02/01/2030", "", "")}

FailingInvitations ==
    {SendInvitationRequest(1, "bob@x.io", "attendee", ""),
     SendInvitationRequest(1, "bob at x.io", "attendee", "")}

NextAll ==
    \/ \E p \in Conns, r \in RegisterRequests : Register(p, r)
    \/ \E p \in Conns, e \in EventIds, r \in FailingPatches, u \in DOMAIN RegisteredUsers :
          UpdateEvent(p, e, r, u)
    \/ \E p \in Conns : RepoUpdateEventGet(p)
    \/ \E p \in Conns : RepoUpdateEventSet(p)
    \/ \E p \in Conns, e \in EventIds, u \in DOMAIN RegisteredUsers : DeleteEvent(p, e, u)
    \/ \E p \in Conns : RepoDeleteEvent(p)
    \/ \E p \in Conns, u \in DOMAIN RegisteredUsers, e \in EventIds : JoinEvent(p, u, e)
    \/ \E p \in Conns : RepoJoinEvent(p)
    \/ \E p \in Conns, e \in EventIds, u \in DOMAIN RegisteredUsers, t \in DOMAIN RegisteredUsers :
          InviteUserToEvent(p, e, u, t, "collaborator")
    \/ \E p \in Conns : AddAttendee(p)
    \/ \E p \in Conns, u \in DOMAIN RegisteredUsers, e \in EventIds, s \in NewStatuses :
          UpdateAttendanceStatus(p, u, e, s)
    \/ \E p \in Conns, r \in FailingInvitations, u \in DOMAIN RegisteredUsers :
          SendInvitation(p, r, u)
    \/ \E p \in Conns : RepoSendInvitation(p)
    \/ \E p \in Conns, i \in InvitationIds, m \in {"bob@x.io", "ann@x.io"} :
          RespondToInvitation(p, i, "accepted", m)
    \/ \E p \in Conns : UpdateInvitationStatus(p)
    \/ \E p \in Conns : Reply(p)

SpecAll == InitInv /\ [][NextAll]_vars

\* Races: two concurrent requests that join, patch and delete Ann's event.
RacePatches ==
    {EventRequest("Retro", "", "", "", ""), EventRequest("", "", "", "", "Room 2")}

NextRace ==
    \/ \E p \in Conns, u \in DOMAIN users, e \in EventIds : JoinEvent(p, u, e)
    \/ \E p \in Conns : RepoJoinEvent(p)
    \/ \E p \in Conns, e \in EventIds, r \in RacePatches, u \in DOMAIN users :
          UpdateEvent(p, e, r, u)
    \/ \E p \in Conns : RepoUpdateEventGet(p)
    \/ \E p \in Conns : RepoUpdateEventSet(p)
    \/ \E p \in Conns, e \in EventIds, u \in DOMAIN users : DeleteEvent(p, e, u)
    \/ \E p \in Conns : RepoDeleteEvent(p)
    \/ \E p \in Conns : Reply(p)

SpecRace == InitInv /\ [][NextRace]_vars

\* Accounts: concurrent requests of the auth endpoints and calls of
\* ValidateToken, with the tokens the responses carry and two forged ones,
\* while time passes until the tokens issued first expire.
AuthInstants == {<<0, 1>>, <<TokenLifetimeDays, 0>>, <<TokenLifetimeDays, 1>>}

RegisterAttempts ==
    {RegisterRequest("ann@x.io", "pw"), RegisterRequest("cat@x.io", "pw"),
     RegisterRequest("cat@x.io", "")}

LoginRequests ==
    {RegisterRequest("ann@x.io", "ann-pw"), RegisterRequest("ann@x.io", "pw"),
     RegisterRequest("cat@x.io", "pw"), RegisterRequest("dan@x.io", "pw")}

ForgedTokens ==
    {Token(Ann, <<TokenLifetimeDays + 2, 0>>, "HS256", "guess"),
     Token(Ann, <<TokenLifetimeDays + 2, 0>>, "none", "")}

PresentedTokens == ({rq[q].token : q \in Conns} \ {NoToken}) \cup ForgedTokens

NextAuth ==
    \/ \E p \in Conns, r \in RegisterAttempts : HandlerRegister(p, r)
    \/ \E p \in Conns, r \in LoginRequests : Login(p, r)
    \/ \E p \in Conns, t \in PresentedTokens : ValidateToken(p, t)
    \/ \E p \in Conns : Reply(p)
    \/ Tick(AuthInstants)

SpecAuth == Init /\ [][NextAuth]_vars

\* Responses: concurrent requests of the endpoints that name an event, for
\* Ann's event before and after it is deleted.
NextHttp ==
    \/ \E p \in Conns, e \in EventIds : ServiceGetEventByID(p, e)
    \/ \E p \in Conns, e \in EventIds, r \in RacePatches, u \in DOMAIN users :
          UpdateEvent(p, e, r, u)
    \/ \E p \in Conns : RepoUpdateEventGet(p)
    \/ \E p \in Conns : RepoUpdateEventSet(p)
    \/ \E p \in Conns, e \in EventIds, u \in DOMAIN users : DeleteEvent(p, e, u)
    \/ \E p \in Conns : RepoDeleteEvent(p)
    \/ \E p \in Conns, u \in DOMAIN users, e \in EventIds : JoinEvent(p, u, e)
    \/ \E p \in Conns : RepoJoinEvent(p)
    \/ \E p \in Conns, e \in EventIds, u \in DOMAIN users, t \in DOMAIN users :
          InviteUserToEvent(p, e, u, t, "organizer")
    \/ \E p \in Conns : AddAttendee(p)
    \/ \E p \in Conns : Reply(p)

SpecHttp == InitInv /\ [][NextHttp]_vars

-----------------------------------------------------------------------------
(* Properties of UpdateEvent's patch, under SpecPatch *)

\* C11: a successful UpdateEvent sets exactly the fields whose patch value is
\* a non-empty string, to the value of the patch, and leaves every other
\* field of the event, organizer_id and created_at included, and every other
\* event as they were; a patch of the location alone leaves title,
\* description, date and time as they were.
PatchSetsGivenFields ==
    [][\A p \in OneConn :
          (rq[p].pc = "RepoUpdateEventSet" /\ rq'[p].pc = "done" /\ rq'[p].err = "")
              => LET e == rq[p].id
                     r == rq[p].req
                 IN  /\ DOMAIN events' = DOMAIN events
                     /\ \A o \in DOMAIN events \ {e} : events'[o] = events[o]
                     /\ events'[e].title = IF r.title # "" THEN r.title ELSE events[e].title
                     /\ events'[e].description =
                            IF r.description # "" THEN r.description ELSE events[e].description
                     /\ events'[e].location =
                            IF r.location # "" THEN r.location ELSE events[e].location
                     /\ events'[e].date =
                            IF r.date # "" THEN IndexOf(DateStrings, r.date) - 1 ELSE events[e].date
                     /\ events'[e].time =
                            IF r.time # "" THEN IndexOf(TimeStrings, r.time) - 1 ELSE events[e].time
                     /\ events'[e].organizer_id = events[e].organizer_id
                     /\ events'[e].created_at = events[e].created_at]_vars

\* An update of the location alone has succeeded: the event has the new
\* location and the title, description, date and time it was created with.
LocationPatched ==
    \E p \in OneConn :
        /\ rq[p].pc = "done"
        /\ rq[p].op = "UpdateEvent"
        /\ rq[p].err = ""
        /\ events[1] = [PatchedEvents[1] EXCEPT !.location = "Room 2"]
        /\ events[2] = PatchedEvents[2]

-----------------------------------------------------------------------------
(* Properties of the event endpoints, one request at a time, under SpecSeq *)

\* C3: UpdateEvent and DeleteEvent by a user who is not the organizer of the
\* event fail with the not-authorized error of the operation and leave the
\* event and its attendee rows as they were; by the organizer (with a patch
\* that passes validation, for UpdateEvent) they go on to the store and
\* succeed; and every change or removal of an event is the write of a call
\* made by its organizer.
OnlyOrganizerMutates ==
    [][/\ \A p \in OneConn :
            (rq[p].pc = "idle" /\ rq'[p].op = "UpdateEvent")
                => \A e \in EventIds, r \in UpdateRequests, u \in DOMAIN users :
                      (UpdateEvent(p, e, r, u) /\ e \in DOMAIN events)
                          => /\ events' = events /\ attendees' = attendees
                             /\ events[e].organizer_id # u
                                   => /\ rq'[p].pc = "done"
                                      /\ rq'[p].err = "you are not authorized to update this event"
                             /\ (events[e].organizer_id = u /\ validateUpdateRequest(r) = "")
                                   => rq'[p].pc = "RepoUpdateEventGet"
       /\ \A p \in OneConn :
            (rq[p].pc = "idle" /\ rq'[p].op = "DeleteEvent")
                => \A e \in EventIds, u \in DOMAIN users :
                      (DeleteEvent(p, e, u) /\ e \in DOMAIN events)
                          => /\ events' = events /\ attendees' = attendees
                             /\ events[e].organizer_id # u
                                   => /\ rq'[p].pc = "done"
                                      /\ rq'[p].err = "you are not authorized to delete this event"
                             /\ events[e].organizer_id = u => rq'[p].pc = "RepoDeleteEvent"
       /\ \A p \in OneConn :
            /\ (rq[p].pc = "RepoUpdateEventGet" /\ rq'[p] # rq[p])
                  => rq'[p].pc = "RepoUpdateEventSet"
            /\ (rq[p].pc = "RepoUpdateEventSet" /\ rq'[p] # rq[p])
                  => /\ rq'[p].pc = "done" /\ rq'[p].err = ""
                     /\ rq[p].id \in DOMAIN events'
                     /\ attendees' = attendees
            /\ (rq[p].pc = "RepoDeleteEvent" /\ rq'[p] # rq[p])
                  => /\ rq'[p].pc = "done" /\ rq'[p].err = ""
                     /\ rq[p].id \notin DOMAIN events'
       /\ \A e \in DOMAIN events :
            (e \notin DOMAIN events' \/ events'[e] # events[e])
                => \E p \in OneConn :
                      /\ rq[p].pc \in {"RepoUpdateEventSet", "RepoDeleteEvent"}
                      /\ rq[p].id = e
                      /\ rq[p].uid = events[e].organizer_id]_vars

\* An UpdateEvent or a DeleteEvent by another user than the organizer has
\* been refused, and the event and the organizer's row are there.
StrangerMutationRefused ==
    \E p \in OneConn, e \in DOMAIN events :
        /\ rq[p].pc = "done"
        /\ rq[p].err \in {"you are not authorized to update this event",
                          "you are not authorized to delete this event"}
        /\ AttendeesOf(e) = {OrganizerAttendee(events[e].organizer_id, e)}

\* C4: when CreateEvent by user A succeeds, the event it inserted has
\* organizer_id = A and exactly one attendee row, the row of A with role
\* organizer and status going; and a CreateEvent that inserted its event
\* succeeds.
CreatorIsOrganizer ==
    [][\A p \in OneConn :
          (rq[p].pc = "AddOrganizerAsAttendee" /\ rq'[p] # rq[p])
              => /\ rq'[p].pc = "done" /\ rq'[p].err = ""
                 /\ rq[p].id \in DOMAIN events'
                 /\ events'[rq[p].id].organizer_id = rq[p].uid
                 /\ {a \in BagToSet(attendees') : a.event_id = rq[p].id}
                        = {EventAttendee(rq[p].uid, rq[p].id, "organizer", "going")}
                 /\ attendees'[EventAttendee(rq[p].uid, rq[p].id, "organizer", "going")] = 1]_vars

\* A CreateEvent by Bob has succeeded: the event is his and has his
\* organizer row.
BobCreated ==
    \E p \in OneConn, e \in DOMAIN events :
        /\ rq[p].pc = "done"
        /\ rq[p].op = "CreateEvent"
        /\ rq[p].err = ""
        /\ events[e].organizer_id = Bob
        /\ AttendeesOf(e) = {EventAttendee(Bob, e, "organizer", "going")}

\* C12, as stated: UpdateEvent by the organizer with a date and a time, both
\* well-formed, passes validation whether or not the combined instant lies
\* in the future.
UpdateIgnoresFuturity ==
    [][\A p \in OneConn :
          (rq[p].pc = "idle" /\ rq'[p].op = "UpdateEvent")
              => \A e \in EventIds, r \in UpdateRequests, u \in DOMAIN users :
                    (/\ UpdateEvent(p, e, r, u)
                     /\ e \in DOMAIN events
                     /\ events[e].organizer_id = u
                     /\ r.date # "" /\ r.time # ""
                     /\ ParseDateTime(r.date, r.time).ok)
                        => rq'[p].pc = "RepoUpdateEventGet"]_vars

\* C12, amended: UpdateEvent by the organizer with a date and a time, both
\* well-formed, is validated for futurity as CreateEvent is: it fails with
\* "event date and time must be in the future" and changes nothing when the
\* combined instant is before the current time, and goes on to the store
\* otherwise.
UpdateChecksFuturity ==
    [][\A p \in OneConn :
          (rq[p].pc = "idle" /\ rq'[p].op = "UpdateEvent")
              => \A e \in EventIds, r \in UpdateRequests, u \in DOMAIN users :
                    (/\ UpdateEvent(p, e, r, u)
                     /\ e \in DOMAIN events
                     /\ events[e].organizer_id = u
                     /\ r.date # "" /\ r.time # ""
                     /\ ParseDateTime(r.date, r.time).ok)
                        => IF Before(ParseDateTime(r.date, r.time).v, now)
                           THEN /\ rq'[p].pc = "done"
                                /\ rq'[p].err = "event date and time must be in the future"
                                /\ events' = events
                           ELSE rq'[p].pc = "RepoUpdateEventGet"]_vars

\* An UpdateEvent has been refused because its date and time are past, and
\* the event is there.
PastUpdateRefused ==
    \E p \in OneConn :
        /\ rq[p].pc = "done"
        /\ rq[p].op = "UpdateEvent"
        /\ rq[p].err = "event date and time must be in the future"
        /\ events # <<>>

\* C13: an UpdateEvent that supplies a date, a time or both and passes
\* validation, and so goes on to succeed, writes a combined date and time
\* that is later than the time of the call.
UpdatedEventIsFuture ==
    [][\A p \in OneConn :
          (rq[p].pc = "idle" /\ rq'[p].pc = "RepoUpdateEventGet")
              => \A e \in EventIds, r \in UpdateRequests, u \in DOMAIN users :
                    (UpdateEvent(p, e, r, u) /\ (r.date # "" \/ r.time # ""))
                        => LET date == IF r.date # "" THEN ParseDate(r.date).v
                                                      ELSE events[e].date
                               time == IF r.time # "" THEN ParseTime(r.time).v
                                                      ELSE events[e].time
                           IN  Before(now, <<date, time>>)]_vars

\* C10: CreateEvent with a well-formed date and time whose instant is at or
\* before the current time, the current time itself included, fails and
\* inserts neither an event nor an attendee row.
PastEventRejected ==
    [][\A p \in OneConn :
          (rq[p].pc = "idle" /\ rq'[p].op = "CreateEvent")
              => \A u \in DOMAIN users, r \in CreateRequests :
                    (/\ CreateEvent(p, u, r)
                     /\ ParseDateTime(r.date, r.time).ok
                     /\ ~Before(now, ParseDateTime(r.date, r.time).v))
                        => /\ rq'[p].pc = "done"
                           /\ rq'[p].err # ""
                           /\ events' = events
                           /\ attendees' = attendees]_vars

-----------------------------------------------------------------------------
(* Properties of the attendance endpoints, under SpecAtt *)

JoinConflict == Wrap("failed to join event", UniqueViolation)
InviteConflict == Wrap("failed to add user to event", UniqueViolation)

\* C2: at every moment event_attendees holds at most one row for a pair of
\* user and event, whatever CreateEvent, JoinEvent, InviteUserToEvent,
\* UpdateAttendanceStatus and DeleteEvent calls have run, and however they
\* interleave.
UniqueAttendance ==
    \A a, b \in BagToSet(attendees) :
        /\ attendees[a] = 1
        /\ (a.user_id = b.user_id /\ a.event_id = b.event_id) => a = b

\* Two users attend one event, and an insert of a second row for one of them
\* has been refused by the constraint.
DuplicateRefused ==
    /\ \E e \in DOMAIN events : Cardinality(AttendeesOf(e)) = 2
    /\ \E p \in Conns : rq[p].pc = "done" /\ rq[p].err \in {JoinConflict, InviteConflict}

\* C5: a JoinEvent call whose insert finds a row of the same user and event
\* fails with the unique violation of the store, reports no success, and
\* leaves every attendee row, role and status included, as it was.
SecondJoinConflicts ==
    [][\A p \in Conns :
          (/\ rq[p].pc = "RepoJoinEvent"
           /\ rq'[p].pc = "done"
           /\ RowsOf(rq[p].uid, rq[p].id) # {})
              => /\ rq'[p].err = JoinConflict
                 /\ attendees' = attendees]_vars

\* A JoinEvent has been refused as a duplicate, of a user whose row no longer
\* has the status it was inserted with.
SecondJoinRefused ==
    \E p \in Conns, a \in BagToSet(attendees) :
        /\ rq[p].pc = "done"
        /\ rq[p].op = "JoinEvent"
        /\ rq[p].err = JoinConflict
        /\ Cardinality(BagToSet(attendees)) = 1
        /\ a.status = "maybe"

\* C8: InviteUserToEvent adds an attendee row only when the inviter is the
\* event's organizer, the role is attendee, collaborator or organizer, and the
\* invitee is not the inviter.  Otherwise the call fails and the rows stay as
\* they were: with the invalid-role error for a bad role, with "only the event
\* creator can invite users to this event" for an inviter who is not the
\* organizer, with "you cannot invite yourself to the event" for a
\* self-invite.
InviteOnlyByOrganizer ==
    [][/\ \A p \in Conns :
            (rq[p].pc = "idle" /\ rq'[p].op = "InviteUserToEvent")
                => \A e \in EventIds, u \in DOMAIN users, t \in InviteTargets, r \in InviteRoles :
                      InviteUserToEvent(p, e, u, t, r)
                          => /\ attendees' = attendees
                             /\ (r \notin {"attendee", "collaborator", "organizer"})
                                   => /\ rq'[p].pc = "done"
                                      /\ rq'[p].err = "invalid role: must be 'attendee', 'collaborator', or 'organizer'"
                             /\ (/\ r \in {"attendee", "collaborator", "organizer"}
                                 /\ e \in DOMAIN events
                                 /\ events[e].organizer_id # u)
                                   => /\ rq'[p].pc = "done"
                                      /\ rq'[p].err = "only the event creator can invite users to this event"
                             /\ (/\ r \in {"attendee", "collaborator", "organizer"}
                                 /\ e \in DOMAIN events
                                 /\ events[e].organizer_id = u
                                 /\ t = u)
                                   => /\ rq'[p].pc = "done"
                                      /\ rq'[p].err = "you cannot invite yourself to the event"
                             /\ rq'[p].pc # "done"
                                   => /\ r \in {"attendee", "collaborator", "organizer"}
                                      /\ e \in DOMAIN events
                                      /\ events[e].organizer_id = u
                                      /\ t # u
       /\ \A p \in Conns :
            (rq[p].pc = "AddAttendee" /\ rq'[p].pc = "done")
                => /\ rq[p].val \in {"attendee", "collaborator", "organizer"}
                   /\ rq[p].tgt # rq[p].uid
                   /\ rq'[p].err # "" => attendees' = attendees
                   /\ attendees' # attendees
                         => /\ rq[p].id \in DOMAIN events
                            /\ events[rq[p].id].organizer_id = rq[p].uid]_vars

\* An invite by a user who is not the organizer has been refused, while the
\* event has the organizer's row only.
StrangerInviteRefused ==
    \E p \in Conns, e \in DOMAIN events :
        /\ rq[p].pc = "done"
        /\ rq[p].op = "InviteUserToEvent"
        /\ rq[p].err = "only the event creator can invite users to this event"
        /\ AttendeesOf(e) = {OrganizerAttendee(events[e].organizer_id, e)}

\* C9: when InviteUserToEvent succeeds for invitee B, who had no row for the
\* event, the event has exactly one row for B, with the role of the call and
\* status going, every other row is as it was, and no invitation is created.
InviteAddsGoingRow ==
    [][\A p \in Conns :
          (rq[p].pc = "AddAttendee" /\ rq'[p].pc = "done" /\ rq'[p].err = "")
              => /\ RowsOf(rq[p].tgt, rq[p].id) = {}
                 /\ attendees' = attendees (+)
                        SetToBag({EventAttendee(rq[p].tgt, rq[p].id, rq[p].val, "going")})
                 /\ invitations' = invitations]_vars

\* The organizer's invite of Bob as collaborator has succeeded and Bob's row
\* is there.
InvitedAsCollaborator ==
    \E p \in Conns, e \in DOMAIN events :
        /\ rq[p].pc = "done"
        /\ rq[p].op = "InviteUserToEvent"
        /\ rq[p].err = ""
        /\ RowsOf(Bob, e) = {EventAttendee(Bob, e, "collaborator", "going")}
        /\ invitations = <<>>

\* C17: UpdateAttendanceStatus with a status other than going, maybe and
\* not_going fails with the validation error, and with a valid status and no
\* row of the user for the event fails with "attendance record not found",
\* and neither changes the store; a successful call sets the status of the
\* user's row for the event and leaves the row's role, the rows of other
\* users and events, and the other tables as they were.
AttendanceStatusUpdate ==
    [][\A p \in Conns :
          (rq[p].pc = "idle" /\ rq'[p].op = "UpdateAttendanceStatus")
              => \A u \in DOMAIN users, e \in EventIds, s \in NewStatuses :
                    UpdateAttendanceStatus(p, u, e, s)
                        => /\ rq'[p].pc = "done"
                           /\ <<users, events, invitations>>' = <<users, events, invitations>>
                           /\ s \notin {"going", "maybe", "not_going"}
                                  => /\ rq'[p].err =
                                          "invalid status: must be 'going', 'maybe', or 'not_going'"
                                     /\ attendees' = attendees
                           /\ (s \in {"going", "maybe", "not_going"} /\ RowsOf(u, e) = {})
                                  => /\ rq'[p].err = "attendance record not found"
                                     /\ attendees' = attendees
                           /\ (s \in {"going", "maybe", "not_going"} /\ RowsOf(u, e) # {})
                                  => /\ rq'[p].err = ""
                                     /\ BagCardinality(attendees') = BagCardinality(attendees)
                                     /\ \A a \in BagToSet(attendees) :
                                           IF a.user_id = u /\ a.event_id = e
                                           THEN BagIn([a EXCEPT !.status = s], attendees')
                                           ELSE CopiesIn(a, attendees') = CopiesIn(a, attendees)
                                     /\ \A b \in BagToSet(attendees') :
                                           (b.user_id = u /\ b.event_id = e) => b.status = s]_vars

\* Bob has set his attendance to maybe while the organizer's row of the same
\* event is still going.
BobMaybe ==
    \E p \in Conns, e \in DOMAIN events :
        /\ rq[p].pc = "done"
        /\ rq[p].op = "UpdateAttendanceStatus"
        /\ rq[p].err = ""
        /\ \E a \in RowsOf(Bob, e) : a.status = "maybe" /\ a.role = "attendee"
        /\ \E a \in RowsOf(Ann, e) : a.status = "going" /\ a.role = "organizer"

\* C27: in every reachable state each attendee row of role organizer is the
\* row of the user who is the organizer_id of the row's event.
OrganizerRoleIsCreator ==
    \A a \in BagToSet(attendees) :
        (a.role = "organizer" /\ a.event_id \in DOMAIN events)
            => a.user_id = events[a.event_id].organizer_id

-----------------------------------------------------------------------------
(* Properties of the invitation endpoints, under SpecInv *)

\* C1: under any interleaving of RespondToInvitation calls, the status of an
\* invitation changes at most once, and only from pending to accepted or
\* declined; a responded invitation never changes status again.
StatusChangesOnce ==
    [][\A i \in DOMAIN invitations :
          (i \in DOMAIN invitations' /\ invitations'[i].status # invitations[i].status)
              => /\ invitations[i].status = "pending"
                 /\ invitations'[i].status \in {"accepted", "declined"}]_vars

\* C6: RespondToInvitation called on an invitation that is not pending fails
\* and leaves the invitation, its status and responded_at included, as it
\* was; the failure of an otherwise valid call is "invitation has already
\* been responded to".
RespondedInvitationRejects ==
    [][\A p \in Conns :
          (rq[p].pc = "idle" /\ rq'[p].op = "RespondToInvitation")
              => \A i \in InvitationIds, s \in ResponseStatuses, m \in ResponseEmails :
                    (/\ RespondToInvitation(p, i, s, m)
                     /\ i \in DOMAIN invitations
                     /\ invitations[i].status # "pending")
                        => /\ rq'[p].pc = "done"
                           /\ rq'[p].err # ""
                           /\ invitations' = invitations
                           /\ (s \in {"accepted", "declined"} /\ m = invitations[i].invitee_email)
                                  => rq'[p].err = "invitation has already been responded to"]_vars

\* A second response to an answered invitation has been refused.
RespondedInvitationRejected ==
    \E p \in Conns, i \in DOMAIN invitations :
        /\ rq[p].pc = "done"
        /\ rq[p].op = "RespondToInvitation"
        /\ rq[p].err = "invitation has already been responded to"
        /\ invitations[i].status \in {"accepted", "declined"}
        /\ invitations[i].responded_at # NoTime

\* C7: RespondToInvitation with an email other than the invitation's
\* invitee_email fails and leaves the invitation as it was, the failure of an
\* otherwise valid call being "you are not authorized to respond to this
\* invitation"; and every change of an invitation is the update of a call
\* that carries the invitee's email.
OnlyInviteeResponds ==
    [][/\ \A p \in Conns :
            (rq[p].pc = "idle" /\ rq'[p].op = "RespondToInvitation")
                => \A i \in InvitationIds, s \in ResponseStatuses, m \in ResponseEmails :
                      (/\ RespondToInvitation(p, i, s, m)
                       /\ i \in DOMAIN invitations
                       /\ m # invitations[i].invitee_email)
                          => /\ rq'[p].pc = "done"
                             /\ rq'[p].err # ""
                             /\ invitations' = invitations
                             /\ (s \in {"accepted", "declined"} /\ m # "")
                                    => rq'[p].err =
                                          "you are not authorized to respond to this invitation"
       /\ \A i \in DOMAIN invitations :
            (i \in DOMAIN invitations' /\ invitations'[i] # invitations[i])
                => \E p \in Conns :
                      /\ rq[p].pc = "UpdateInvitationStatus"
                      /\ rq'[p].pc = "done"
                      /\ rq[p].id = i
                      /\ rq[p].email = invitations[i].invitee_email]_vars

\* A response carrying another user's email has been refused while the
\* invitation is still pending.
StrangerRejected ==
    \E p \in Conns, i \in DOMAIN invitations :
        /\ rq[p].pc = "done"
        /\ rq[p].op = "RespondToInvitation"
        /\ rq[p].err = "you are not authorized to respond to this invitation"
        /\ invitations[i].status = "pending"
        /\ invitations[i].responded_at = NoTime

\* C14: in every reachable state each invitation's inviter_id is the
\* organizer_id of the event the invitation references.
InviterIsOrganizer ==
    \A i \in DOMAIN invitations :
        invitations[i].event_id \in DOMAIN events
            => invitations[i].inviter_id = events[invitations[i].event_id].organizer_id

\* C15: the insert of a successful SendInvitation adds exactly one invitation,
\* for the event, inviter, email, role and message of the call, with status
\* pending, no responded-at time and, as invitee_id, the id of the user whose
\* email is the invitee email, or null when no user has that email; every
\* other invitation and every attendee row stay as they were.
SendPersistsPending ==
    [][\A p \in Conns :
          (rq[p].pc = "RepoSendInvitation" /\ rq'[p].pc = "done" /\ rq'[p].err = "")
              => \E n \in DOMAIN invitations' :
                    /\ n \notin DOMAIN invitations
                    /\ DOMAIN invitations' = DOMAIN invitations \cup {n}
                    /\ \A i \in DOMAIN invitations : invitations'[i] = invitations[i]
                    /\ attendees' = attendees
                    /\ invitations'[n].status = "pending"
                    /\ invitations'[n].responded_at = NoTime
                    /\ invitations'[n].event_id = rq[p].id
                    /\ invitations'[n].inviter_id = rq[p].uid
                    /\ invitations'[n].invitee_email = rq[p].email
                    /\ invitations'[n].role = rq[p].val
                    /\ invitations'[n].message = rq[p].msg
                    /\ \A u \in DOMAIN users :
                          users[u].email = rq[p].email => invitations'[n].invitee_id = u
                    /\ (\A u \in DOMAIN users : users[u].email # rq[p].email)
                          => invitations'[n].invitee_id = NullId]_vars

\* An invitation to an address of no user is stored pending, with a null
\* invitee_id.
UnregisteredInvited ==
    \E p \in Conns, i \in DOMAIN invitations :
        /\ rq[p].pc = "done"
        /\ rq[p].op = "SendInvitation"
        /\ rq[p].err = ""
        /\ invitations[i].invitee_email = "cat@x.io"
        /\ invitations[i].invitee_id = NullId
        /\ invitations[i].status = "pending"
        /\ invitations[i].responded_at = NoTime

\* C16: no step of RespondToInvitation, refused or successful, changes
\* event_attendees: accepting an invitation adds no attendee row.
RespondKeepsAttendees ==
    [][\A p \in Conns :
          (\/ rq[p].pc = "idle" /\ rq'[p].op = "RespondToInvitation"
           \/ rq[p].pc = "UpdateInvitationStatus" /\ rq'[p].pc = "done")
              => attendees' = attendees]_vars

\* Bob has accepted the invitation to an event and has no attendee row for it.
AcceptedNotAttending ==
    \E p \in Conns, i \in DOMAIN invitations :
        /\ rq[p].pc = "done"
        /\ rq[p].op = "RespondToInvitation"
        /\ rq[p].err = ""
        /\ invitations[i].status = "accepted"
        /\ invitations[i].invitee_id = Bob
        /\ RowsOf(Bob, invitations[i].event_id) = {}

-----------------------------------------------------------------------------
(* Properties of deletion, under SpecDel *)

JoinOrphaned == Wrap("failed to join event", ForeignKeyViolation)

\* C18: in every reachable state each attendee row references an existing
\* event, JoinEvent and InviteUserToEvent interleaved with DeleteEvent
\* included; and the DELETE of a successful DeleteEvent of event E leaves no
\* attendee row and no invitation that references E.
DeleteCascades ==
    /\ [](\A a \in BagToSet(attendees) : a.event_id \in DOMAIN events)
    /\ [][\A p \in Conns :
            (rq[p].pc = "RepoDeleteEvent" /\ rq'[p].pc = "done" /\ rq'[p].err = "")
                => /\ rq[p].id \in DOMAIN events
                   /\ rq[p].id \notin DOMAIN events'
                   /\ \A a \in BagToSet(attendees') : a.event_id # rq[p].id
                   /\ \A i \in DOMAIN invitations' : invitations'[i].event_id # rq[p].id]_vars

\* Ann's event, which had its organizer's row and an invitation, has been
\* deleted with both, and a JoinEvent that had found the event before the
\* delete has had its insert refused.
DeletedWhileJoining ==
    \E p, q \in Conns :
        /\ rq[p].pc = "done" /\ rq[p].op = "DeleteEvent" /\ rq[p].err = ""
        /\ rq[q].pc = "done" /\ rq[q].op = "JoinEvent" /\ rq[q].err = JoinOrphaned
        /\ nextInvitationId > 1
        /\ events = <<>>
        /\ attendees = EmptyBag
        /\ invitations = <<>>

-----------------------------------------------------------------------------
(* Properties of CreateEvent's two statements, under SpecCrash *)

\* C20: CreateEvent is not atomic. When its second statement, the insert of
\* the organizer's attendee row, fails, CreateEvent returns an error and
\* undoes nothing: the events stay as they were, the event it inserted
\* included, and the event has no attendee row of role organizer; only when
\* the insert succeeds does CreateEvent return without error.
CreateEventNotAtomic ==
    [][\A p \in Conns :
          (rq[p].pc = "AddOrganizerAsAttendee" /\ rq'[p].pc = "done")
              => IF attendees' = attendees
                 THEN /\ rq'[p].err # ""
                      /\ events' = events
                      /\ \A a \in AttendeesOf(rq[p].id) : a.role # "organizer"
                 ELSE /\ rq'[p].err = ""
                      /\ events' = events
                      /\ attendees' = attendees (+) SetToBag({OrganizerAttendee(rq[p].uid, rq[p].id)})]_vars

\* CreateEvent has returned an error and the event it inserted is stored
\* with no attendee row for its organizer.
EventWithoutOrganizerRow ==
    \E p \in Conns, e \in DOMAIN events :
        /\ rq[p].pc = "done"
        /\ rq[p].op = "CreateEvent"
        /\ rq[p].err # ""
        /\ RowsOf(events[e].organizer_id, e) = {}
        /\ AttendeesOf(e) = {}

-----------------------------------------------------------------------------
(* Properties of failed calls, under SpecAll *)

WritingOperations ==
    {"Register", "UpdateEvent", "DeleteEvent", "JoinEvent", "InviteUserToEvent",
     "UpdateAttendanceStatus", "SendInvitation", "RespondToInvitation"}

RegisterConflict == Wrap("failed to create user", UniqueViolation)

\* C19: a call of Register, UpdateEvent, DeleteEvent, JoinEvent,
\* InviteUserToEvent, UpdateAttendanceStatus, SendInvitation or
\* RespondToInvitation that returns an error has written nothing: the only
\* step of such a call that changes a row of users, events, attendees or
\* invitations is the one with which the call returns without error.
ErrorChangesNothing ==
    [][\A p \in Conns :
          (/\ rq'[p] # rq[p]
           /\ rq'[p].op \in WritingOperations
           /\ (rq'[p].pc # "done" \/ rq'[p].err # ""))
              => db' = db]_vars

\* A Register with Ann's email and a JoinEvent of a user who has a row have
\* both returned their error, and the users are the two that were registered.
FailedCallsWroteNothing ==
    \E p, q \in Conns :
        /\ rq[p].pc = "done" /\ rq[p].op = "Register" /\ rq[p].err = RegisterConflict
        /\ rq[q].pc = "done" /\ rq[q].op = "JoinEvent" /\ rq[q].err = JoinConflict
        /\ users = RegisteredUsers
        /\ \A e \in DOMAIN events : Cardinality(AttendeesOf(e)) = 1

\* C28: the role of an attendee row never changes: whatever JoinEvent,
\* InviteUserToEvent, UpdateAttendanceStatus, UpdateEvent and
\* RespondToInvitation calls run, a row of a user and an event that is there
\* before and after a step has the same role, and an invite of a user who has
\* a row is refused by the unique constraint and changes no row.
RoleNeverChanges ==
    [][/\ \A a \in BagToSet(attendees), b \in BagToSet(attendees') :
            (a.user_id = b.user_id /\ a.event_id = b.event_id) => a.role = b.role
       /\ \A p \in Conns :
            (/\ rq[p].pc = "AddAttendee"
             /\ rq'[p].pc = "done"
             /\ RowsOf(rq[p].tgt, rq[p].id) # {})
                => /\ rq'[p].err = InviteConflict
                   /\ attendees' = attendees]_vars

\* Bob joined Ann's event as attendee and changed his status, and Ann's
\* invite of Bob as collaborator has been refused: Bob is still attendee.
JoinedStaysAttendee ==
    \E p \in Conns, e \in DOMAIN events :
        /\ rq[p].pc = "done"
        /\ rq[p].op = "InviteUserToEvent"
        /\ rq[p].err = InviteConflict
        /\ RowsOf(Bob, e) = {EventAttendee(Bob, e, "attendee", "maybe")}

-----------------------------------------------------------------------------
(* Properties of racing requests, under SpecRace *)

\* C21: when two JoinEvent calls of one user for one existing event that the
\* user has not joined have both passed the existence check, the insert that
\* runs first succeeds and adds the one row of the pair, and an insert that
\* finds the row fails with the unique violation, not with success, and adds
\* nothing; the pair never has more than one row.
JoinRaceHasOneWinner ==
    [][\A p \in Conns :
          (rq[p].pc = "RepoJoinEvent" /\ rq'[p].pc = "done" /\ rq[p].id \in DOMAIN events)
              => LET mine == JoinedAttendee(rq[p].uid, rq[p].id)
                     racing == \E q \in Conns \ {p} :
                                   /\ rq[q].pc = "RepoJoinEvent"
                                   /\ rq[q].uid = rq[p].uid
                                   /\ rq[q].id = rq[p].id
                 IN  /\ RowsOf(rq[p].uid, rq[p].id) = {}
                         => /\ rq'[p].err = ""
                            /\ attendees' = attendees (+) SetToBag({mine})
                            /\ racing => \E q \in Conns \ {p} : rq'[q].pc = "RepoJoinEvent"
                     /\ RowsOf(rq[p].uid, rq[p].id) # {}
                         => /\ rq'[p].err = Wrap("failed to join event", UniqueViolation)
                            /\ attendees' = attendees
                     /\ \E a \in BagToSet(attendees') :
                           /\ a.user_id = mine.user_id /\ a.event_id = mine.event_id
                           /\ CopiesIn(a, attendees') = 1
                           /\ \A b \in BagToSet(attendees') :
                                 (b.user_id = a.user_id /\ b.event_id = a.event_id) => b = a]_vars

\* Bob's two JoinEvent calls for Ann's event raced: one has joined, the other,
\* which found the event before the row was there, is about to insert.
JoinRaceWon ==
    \E p, q \in Conns :
        /\ rq[p].pc = "done" /\ rq[p].op = "JoinEvent" /\ rq[p].err = ""
        /\ rq[q].pc = "RepoJoinEvent" /\ rq[q].uid = Bob
        /\ rq[q].id \in DOMAIN events
        /\ RowsOf(Bob, rq[q].id) = {JoinedAttendee(Bob, rq[q].id)}

\* C22: concurrent updates may lose writes.  The UPDATE of a successful
\* UpdateEvent rewrites title, description, date, time and location from the
\* row the call read earlier with its patch applied, whatever the row holds
\* by then: a field the patch leaves empty is set back to the value that was
\* read, and the call reports success.
UpdateRewritesStaleRow ==
    [][\A p \in Conns :
          /\ (rq[p].pc = "RepoUpdateEventGet" /\ rq'[p].pc = "RepoUpdateEventSet")
                => /\ rq[p].id \in DOMAIN events
                   /\ rq'[p].cur.title =
                          IF rq[p].req.title # "" THEN rq[p].req.title ELSE events[rq[p].id].title
                   /\ rq'[p].cur.location =
                          IF rq[p].req.location # "" THEN rq[p].req.location
                          ELSE events[rq[p].id].location
                   /\ rq'[p].cur.description = events[rq[p].id].description
                   /\ rq'[p].cur.date = events[rq[p].id].date
                   /\ rq'[p].cur.time = events[rq[p].id].time
          /\ (rq[p].pc = "RepoUpdateEventSet" /\ rq'[p] # rq[p] /\ rq[p].id \in DOMAIN events)
                => /\ rq'[p].pc = "done"
                   /\ rq'[p].err = ""
                   /\ events'[rq[p].id].title = rq[p].cur.title
                   /\ events'[rq[p].id].description = rq[p].cur.description
                   /\ events'[rq[p].id].date = rq[p].cur.date
                   /\ events'[rq[p].id].time = rq[p].cur.time
                   /\ events'[rq[p].id].location = rq[p].cur.location]_vars

\* Ann's two patches raced: the patch of the title has succeeded, and the
\* patch of the location, which read the row before, is about to write the
\* old title back.
TitleAboutToBeLost ==
    \E p, q \in Conns :
        /\ rq[p].pc = "done" /\ rq[p].op = "UpdateEvent" /\ rq[p].err = ""
        /\ rq[q].pc = "RepoUpdateEventSet"
        /\ rq[q].id \in DOMAIN events
        /\ rq[q].req.title = "" /\ rq[q].req.location = "Room 2"
        /\ events[rq[q].id].title = "Retro"
        /\ rq[q].cur.title = "Standup"
        /\ events[rq[q].id].location = "Room 1"

\* The errors of a statement that finds no row of the event.
EventNotFound ==
    {"event not found", Wrap("failed to get event", NoRows), Wrap("failed to update event", NoRows)}

\* C30: of the DeleteEvent calls of the organizer for one event, however
\* their ownership reads and their deletes interleave, the one whose DELETE
\* finds the row succeeds and removes it, and every other one fails with a
\* not-found error and changes nothing, at its read or at its DELETE; an
\* event that is gone never reappears, and an UpdateEvent that read the event
\* before the delete fails without writing.
DeleteSucceedsOnce ==
    [][/\ \A p \in Conns :
            /\ (rq[p].pc = "idle" /\ rq'[p].op = "DeleteEvent")
                  => \A e \in EventIds, u \in DOMAIN users :
                        (DeleteEvent(p, e, u) /\ e \notin DOMAIN events)
                            => /\ rq'[p].pc = "done"
                               /\ rq'[p].err \in EventNotFound
            /\ (rq[p].pc = "RepoDeleteEvent" /\ rq'[p] # rq[p])
                  => /\ rq'[p].pc = "done"
                     /\ IF rq[p].id \in DOMAIN events
                        THEN /\ rq'[p].err = ""
                             /\ DOMAIN events' = DOMAIN events \ {rq[p].id}
                        ELSE /\ rq'[p].err = "event not found"
                             /\ db' = db
            /\ (/\ rq[p].pc \in {"RepoUpdateEventGet", "RepoUpdateEventSet"}
                /\ rq'[p] # rq[p]
                /\ rq[p].id \notin DOMAIN events)
                  => /\ rq'[p].pc = "done"
                     /\ rq'[p].err \in EventNotFound
                     /\ db' = db
       /\ \A e \in 1 .. nextEventId - 1 : e \notin DOMAIN events => e \notin DOMAIN events']_vars

\* Ann's two DeleteEvent calls raced: both read the event, one deleted it, and
\* the other's DELETE found no row.
SecondDeleteNotFound ==
    \E p, q \in Conns :
        /\ rq[p].pc = "done" /\ rq[p].op = "DeleteEvent" /\ rq[p].err = ""
        /\ rq[q].pc = "done" /\ rq[q].op = "DeleteEvent" /\ rq[q].err = "event not found"
        /\ events = <<>>
        /\ attendees = EmptyBag

-----------------------------------------------------------------------------
(* Properties of the auth endpoints, under SpecAuth *)

\* C23: once Register has accepted an email and a password, Login with the
\* same email and password succeeds, and ValidateToken of the token it
\* returns, at any time from the login to before the token's expiry, returns
\* the id of the user that Register created.  The rows of users never change,
\* so this holds for every later Login.
LoginAfterRegister ==
    [][/\ \A u \in DOMAIN users : u \in DOMAIN users' /\ users'[u] = users[u]
       /\ \A p \in Conns :
            /\ (rq[p].pc = "idle" /\ rq'[p].op = "Register" /\ rq'[p].err = "")
                  => \A r \in RegisterAttempts :
                        HandlerRegister(p, r)
                            => \E u \in DOMAIN users' \ DOMAIN users :
                                  /\ users'[u].email = r.email
                                  /\ LoginResult(r)'.err = ""
                                  /\ ValidateTokenAt(LoginResult(r)'.token, now') =
                                         [err |-> "", user_id |-> u]
            /\ (rq[p].pc = "idle" /\ rq'[p].op = "Login")
                  => \A r \in LoginRequests, u \in DOMAIN users :
                        (/\ Login(p, r)
                         /\ users[u].email = r.email
                         /\ users[u].password_hash = HashPassword(r.password))
                            => /\ rq'[p].err = ""
                               /\ ValidateTokenAt(rq'[p].token, now) = [err |-> "", user_id |-> u]
                               /\ \A t \in AuthInstants :
                                     (~Before(t, now) /\ Before(t, rq'[p].token.exp))
                                         => ValidateTokenAt(rq'[p].token, t) =
                                               [err |-> "", user_id |-> u]]_vars

\* The user registered as cat@x.io has logged in, and the token of the login
\* has been validated later as that user's.
CatAuthenticated ==
    \E p, q \in Conns, u \in DOMAIN users \ DOMAIN RegisteredUsers :
        /\ users[u].email = "cat@x.io"
        /\ rq[p].pc = "done" /\ rq[p].op = "Login" /\ rq[p].err = ""
        /\ rq[p].token.user_id = u
        /\ rq[q].pc = "done" /\ rq[q].op = "ValidateToken" /\ rq[q].err = ""
        /\ rq[q].tgt = u
        /\ Before(<<0, 1>>, now)

\* C24: a Login that fails, fails with "invalid email or password", for an
\* email no user has as for a wrong password, and returns no token: the
\* failure is the same response whether or not the email is registered.
LoginFailuresAlike ==
    [][\A p \in Conns :
          (rq[p].pc = "idle" /\ rq'[p].op = "Login")
              => \A r \in LoginRequests :
                    Login(p, r)
                        => LET known == \E u \in DOMAIN users : users[u].email = r.email
                               matches == \E u \in DOMAIN users :
                                              /\ users[u].email = r.email
                                              /\ users[u].password_hash = HashPassword(r.password)
                               failure == [Return(Call("Login", 0, 0, 0, "", "", NoRequest),
                                                  "invalid email or password")
                                              EXCEPT !.email = r.email]
                           IN  /\ ~known => rq'[p] = failure
                               /\ (known /\ ~matches) => rq'[p] = failure
                               /\ matches => rq'[p].err = ""
                               /\ db' = db]_vars

\* A Login with an unknown email and a Login with Ann's email and a wrong
\* password have both been refused.
BothLoginsRefused ==
    \E p, q \in Conns :
        /\ p # q
        /\ rq[p].pc = "done" /\ rq[p].op = "Login" /\ rq[p].email = "dan@x.io"
        /\ rq[q].pc = "done" /\ rq[q].op = "Login" /\ rq[q].email = "ann@x.io"
        /\ rq[p].err = "invalid email or password"
        /\ rq[q].err = rq[p].err
        /\ rq[q].token = NoToken /\ rq[p].token = NoToken
        /\ \A u \in DOMAIN users : users[u].email # "dan@x.io"

\* C25: Register with an email that a user already has, or with an empty
\* password, fails and adds no user row; and no two users ever have the same
\* email, concurrent Register calls included.
RegisterRefusesDuplicates ==
    /\ [](\A u, v \in DOMAIN users : users[u].email = users[v].email => u = v)
    /\ [][\A p \in Conns :
            (rq[p].pc = "idle" /\ rq'[p].op = "Register")
                => \A r \in RegisterAttempts :
                      (/\ HandlerRegister(p, r)
                       /\ \/ r.password = ""
                          \/ \E u \in DOMAIN users : users[u].email = r.email)
                          => /\ rq'[p].pc = "done"
                             /\ rq'[p].err # ""
                             /\ rq'[p].token = NoToken
                             /\ users' = users]_vars

\* cat@x.io is registered once, and a Register with an empty password and a
\* Register with Ann's email have been refused.
RegistrationsRefused ==
    \E p, q \in Conns :
        /\ rq[p].pc = "done" /\ rq[p].op = "Register" /\ rq[p].err = "password is required"
        /\ rq[q].pc = "done" /\ rq[q].op = "Register" /\ rq[q].err = RegisterConflict
        /\ Cardinality({u \in DOMAIN users : users[u].email = "cat@x.io"}) = 1

-----------------------------------------------------------------------------
(* Properties of the responses, under SpecHttp *)

EventEndpoints == {"GetEventByID", "UpdateEvent", "DeleteEvent", "JoinEvent", "InviteUserToEvent"}

\* C26: a request of GET, PUT or DELETE /events/{id}, POST /events/{id}/join
\* or POST /events/{id}/invite that fails because the event does not exist is
\* answered with status 404.
MissingEventIs404 ==
    \A p \in Conns :
        (/\ rq[p].pc = "done"
         /\ rq[p].op \in EventEndpoints
         /\ rq[p].err \in EventNotFound)
            => HandlerStatus(rq[p].op, rq[p].err) = StatusNotFound

\* C29: the organizer_id of an event never changes, whatever UpdateEvent
\* patches and InviteUserToEvent calls with role organizer run; so a call
\* that has passed the ownership check of UpdateEvent or DeleteEvent is still
\* the call of the event's organizer when its statement runs, as long as the
\* event exists.
OrganizerIdFixed ==
    /\ [][\A e \in DOMAIN events :
            e \in DOMAIN events' => events'[e].organizer_id = events[e].organizer_id]_vars
    /\ [](\A p \in Conns :
            (/\ rq[p].pc \in {"RepoUpdateEventGet", "RepoUpdateEventSet", "RepoDeleteEvent"}
             /\ rq[p].id \in DOMAIN events)
                => events[rq[p].id].organizer_id = rq[p].uid)

\* Ann has patched her event and invited Bob to it as organizer: Bob has the
\* row, and the event's organizer_id is still Ann.
CoOrganizerInvited ==
    \E p, q \in Conns, e \in DOMAIN events :
        /\ rq[p].pc = "done" /\ rq[p].op = "InviteUserToEvent" /\ rq[p].err = ""
        /\ rq[q].pc = "RepoUpdateEventSet" /\ rq[q].id = e /\ rq[q].uid = Ann
        /\ RowsOf(Bob, e) = {EventAttendee(Bob, e, "organizer", "going")}
        /\ events[e].organizer_id = Ann
        /\ events[e].title = "Retro"

====
